---- MODULE Spec2Model ----
(***************************************************************************)
(* Model of the css-helper MCP server (src/src/index.ts): the process-wide *)
(* investigation store, the tool handlers that read and write it, and the  *)
(* static CSS analysis the handlers run.                                   *)
(*                                                                         *)
(* Text is a sequence of one-character strings, so that the regular        *)
(* expressions of the source are modelled by what they match.  A CSS file  *)
(* is a sequence of flat rule blocks `selector { declarations }` with at   *)
(* least one declaration each; search terms occur in selectors only.       *)
(*                                                                         *)
(* A handler is an operator from the store and the arguments of the call   *)
(* to the store it leaves and the outcome it reports; the responses are    *)
(* modelled by their kind and the figures they carry, not by their text.   *)
(* Wall-clock stamps (startedAt, generatedAt, the Date.now() in screenshot *)
(* file names) and the workspace paths are left out: no handler reads      *)
(* them back.                                                              *)
(***************************************************************************)
EXTENDS Integers, Sequences, FiniteSets, TLC

\* ---------------------------------------------------------------- text --

Min(a, b) == IF a < b THEN a ELSE b

Range(s) == {s[i] : i \in 1..Len(s)}

RECURSIVE SumSeq(_)
SumSeq(s) == IF s = <<>> THEN 0 ELSE Head(s) + SumSeq(Tail(s))

RECURSIVE Flatten(_)
Flatten(ss) == IF ss = <<>> THEN <<>> ELSE Head(ss) \o Flatten(Tail(ss))

Digits == {"0", "1", "2", "3", "4", "5", "6", "7", "8", "9"}

Letters == {"a", "b", "c", "d", "e", "f", "g", "h", "i", "j", "k", "l", "m",
            "n", "o", "p", "q", "r", "s", "t", "u", "v", "w", "x", "y", "z"}

\* \w and "-" of the source's character classes [\w-] and [a-zA-Z0-9_-]
WordChars == Letters \cup Digits \cup {"_", "-"}

\* \s of the source's split(/\s+/)
Whitespace == {" ", "\n", "\t"}

\* the markers replaced by a space: /[#.:\[]/g
Markers == {"#", ".", ":", "["}

CharAt(s, i) == IF i >= 1 /\ i <= Len(s) THEN s[i] ELSE ""

\* pat occurs in s at position i
MatchesAt(s, i, pat) ==
    /\ i >= 1
    /\ i + Len(pat) - 1 <= Len(s)
    /\ \A k \in 1..Len(pat) : s[i + k - 1] = pat[k]

\* String.prototype.includes
Includes(s, pat) == \E i \in 1..(Len(s) + 1) : MatchesAt(s, i, pat)

\* end of the maximal run of word characters that starts at i (i-1 if none)
RECURSIVE WordRunEnd(_, _)
WordRunEnd(s, i) ==
    IF i <= Len(s) /\ s[i] \in WordChars THEN WordRunEnd(s, i + 1) ELSE i - 1

\* the pseudo-elements removed before counting
PseudoElements ==
    << <<":", ":", "b", "e", "f", "o", "r", "e">>,
       <<":", ":", "a", "f", "t", "e", "r">>,
       <<":", ":", "f", "i", "r", "s", "t", "-", "l", "i", "n", "e">>,
       <<":", ":", "f", "i", "r", "s", "t", "-", "l", "e", "t", "t", "e", "r">> >>

\* selector.replace(/::(before|after|first-line|first-letter)/g, '')
RECURSIVE StripPseudoElements(_, _)
StripPseudoElements(s, i) ==
    IF i > Len(s) THEN <<>>
    ELSE LET hit == {k \in 1..Len(PseudoElements) : MatchesAt(s, i, PseudoElements[k])}
         IN  IF hit # {}
             THEN LET k == CHOOSE k \in hit : \A j \in hit : k <= j
                  IN  StripPseudoElements(s, i + Len(PseudoElements[k]))
             ELSE <<s[i]>> \o StripPseudoElements(s, i + 1)

\* number of matches of /<marker>[\w-]+/g
CountMarked(s, marker) ==
    Cardinality({i \in 1..Len(s) : s[i] = marker /\ CharAt(s, i + 1) \in WordChars})

NotParen == <<"n", "o", "t", "(">>

\* number of matches of /:(?!not\()[\w-]+/g
CountPseudo(s) ==
    Cardinality({i \in 1..Len(s) :
        /\ s[i] = ":"
        /\ CharAt(s, i + 1) \in WordChars
        /\ ~MatchesAt(s, i + 1, NotParen)})

\* position of the first "]" at or after i (0 if none)
RECURSIVE FirstClose(_, _)
FirstClose(s, i) ==
    IF i > Len(s) THEN 0 ELSE IF s[i] = "]" THEN i ELSE FirstClose(s, i + 1)

\* end of the match of /\[[\w-]+(=[^\]]+)?\]/ that starts at i (0 if none)
AttrMatchEnd(s, i) ==
    IF CharAt(s, i) # "[" THEN 0
    ELSE LET j == WordRunEnd(s, i + 1)
         IN  IF j < i + 1 THEN 0
             ELSE IF CharAt(s, j + 1) = "]" THEN j + 1
             ELSE IF CharAt(s, j + 1) = "="
                  THEN LET k == FirstClose(s, j + 2)
                       IN  IF k >= j + 3 THEN k ELSE 0
                  ELSE 0

\* number of matches of /\[[\w-]+(=[^\]]+)?\]/g, scanning from i
RECURSIVE CountAttr(_, _)
CountAttr(s, i) ==
    IF i > Len(s) THEN 0
    ELSE LET e == AttrMatchEnd(s, i)
         IN  IF e > 0 THEN 1 + CountAttr(s, e + 1) ELSE CountAttr(s, i + 1)

\* cleaned.replace(/[#.:\[]/g, ' ')
BlankMarkers(s) == [i \in 1..Len(s) |-> IF s[i] \in Markers THEN " " ELSE s[i]]

\* split(/\s+/).filter(s => s && !/^[\d]/.test(s) && s !== '*').length
CountElementTokens(s) ==
    Cardinality({i \in 1..Len(s) :
        /\ s[i] \notin Whitespace
        /\ (i = 1 \/ s[i - 1] \in Whitespace)
        /\ s[i] \notin Digits
        /\ ~(s[i] = "*" /\ (i = Len(s) \/ s[i + 1] \in Whitespace))})

\* variant: the total is the plain sum of the counts
calculateSpecificity_flat(selector) ==
    LET cleaned  == StripPseudoElements(selector, 1)
        ids      == CountMarked(cleaned, "#")
        classes  == CountMarked(cleaned, ".") + CountAttr(cleaned, 1) + CountPseudo(cleaned)
        elements == CountElementTokens(BlankMarkers(cleaned))
        inline   == 0
    IN  [inline |-> inline, ids |-> ids, classes |-> classes, elements |-> elements,
         total |-> inline + ids + classes + elements]

\* variant: a name counted as id or class is not counted as element again
calculateSpecificity_once(selector) ==
    LET cleaned  == StripPseudoElements(selector, 1)
        ids      == CountMarked(cleaned, "#")
        classes  == CountMarked(cleaned, ".") + CountAttr(cleaned, 1) + CountPseudo(cleaned)
        elements == CountElementTokens(BlankMarkers(cleaned))
                    - Cardinality({i \in 1..Len(cleaned) :
                          cleaned[i] \in Markers /\ CharAt(cleaned, i + 1) \in WordChars \ Digits})
        inline   == 0
    IN  [inline |-> inline, ids |-> ids, classes |-> classes, elements |-> elements,
         total |-> (inline * 1000) + (ids * 100) + (classes * 10) + elements]

calculateSpecificity(selector) ==
    LET cleaned  == StripPseudoElements(selector, 1)
        ids      == CountMarked(cleaned, "#")
        classes  == CountMarked(cleaned, ".") + CountAttr(cleaned, 1) + CountPseudo(cleaned)
        elements == CountElementTokens(BlankMarkers(cleaned))
        inline   == 0
    IN  [inline |-> inline, ids |-> ids, classes |-> classes, elements |-> elements,
         total |-> (inline * 1000) + (ids * 100) + (classes * 10) + elements]

\* ------------------------------------------------------- the workspace --

\* selector texts used in the stylesheets and as search input
SelA   == <<".", "a">>
SelAB  == <<".", "a", ".", "b">>
SelHA  == <<"#", "h", " ", ".", "a">>
SelZ   == <<".", "z">>
SelB   == <<".", "b">>
SelBA  == <<".", "b", " ", ".", "a">>
SelDiv == <<"d", "i", "v">>

Decl(p, v, imp) == [prop |-> p, value |-> v, important |-> imp]

\* one `selector { declarations }` block; oneLine: written on a single line
Block(sel, decls, oneLine) == [selector |-> sel, decls |-> decls, oneLine |-> oneLine]

\* the stylesheets of the workspace, by path relative to the workspace root
CssFileContent ==
    [f \in {"base.css", "theme.css", "dup.less", "mix.less"} |->
        IF f = "base.css"
        THEN << Block(SelA, <<Decl("color", "red", FALSE), Decl("color", "blue", FALSE)>>, FALSE),
                Block(SelAB, <<Decl("margin", "0", FALSE)>>, TRUE) >>
        ELSE IF f = "theme.css"
        THEN << Block(SelA, <<Decl("color", "green", TRUE)>>, FALSE),
                Block(SelHA, <<Decl("margin", "0", FALSE)>>, FALSE) >>
        ELSE IF f = "dup.less"
        THEN << Block(SelA, <<Decl("color", "red", FALSE), Decl("margin", "0", FALSE)>>, FALSE),
                Block(SelZ, <<Decl("color", "red", FALSE)>>, TRUE),
                Block(SelA, <<Decl("color", "blue", FALSE), Decl("margin", "4", FALSE)>>, FALSE) >>
        ELSE << Block(SelBA, <<Decl("margin", "0", FALSE)>>, FALSE),
                Block(SelAB, <<Decl("color", "red", TRUE)>>, FALSE),
                Block(SelHA, <<Decl("color", "blue", TRUE)>>, TRUE),
                Block(SelB, <<Decl("padding", "0", FALSE)>>, FALSE) >>]

\* glob(cssPattern, {cwd: workspacePath}): the paths a pattern matches
CssGlob ==
    [p \in {"**/*.css", "**/*.scss", "**/*.less", "**/*.{css,less}",
            "base.css", "theme.css", "dup.less", "mix.less"} |->
        IF p = "**/*.css" THEN <<"base.css", "theme.css">>
        ELSE IF p = "**/*.scss" THEN <<>>
        ELSE IF p = "**/*.less" THEN <<"mix.less", "dup.less">>
        ELSE IF p = "**/*.{css,less}" THEN <<"base.css", "dup.less", "mix.less", "theme.css">>
        ELSE <<p>>]

\* the cssPattern arguments of the sessions
CssPatterns == {"**/*.css", "**/*.scss"}

Selectors == {SelA, SelZ}

\* sets of files whose read fails (fs.readFile rejects)
ReadFailures == {{}, {"theme.css", "Card.tsx"}}

\* ------------------------------------------------ cascade tracing (2) --

\* selector.match(/\.[a-zA-Z0-9_-]+/g), scanning from i
RECURSIVE ClassTokens(_, _)
ClassTokens(s, i) ==
    IF i > Len(s) THEN <<>>
    ELSE IF s[i] = "." /\ CharAt(s, i + 1) \in WordChars
         THEN LET e == WordRunEnd(s, i + 1)
              IN  <<SubSeq(s, i, e)>> \o ClassTokens(s, e + 1)
         ELSE ClassTokens(s, i + 1)

\* selector.match(...) || [selector]
baseClasses(selector) ==
    LET m == ClassTokens(selector, 1) IN IF m = <<>> THEN <<selector>> ELSE m

\* .filter((v, i, a) => a.indexOf(v) === i)
Unique(a) ==
    LET keep == {i \in 1..Len(a) : \A j \in 1..(i - 1) : a[j] # a[i]}
        RECURSIVE Pick(_)
        Pick(i) == IF i > Len(a) THEN <<>>
                   ELSE IF i \in keep THEN <<a[i]>> \o Pick(i + 1) ELSE Pick(i + 1)
    IN  Pick(1)

searchTerms(selector) == Unique(<<selector>> \o baseClasses(selector))

\* content.includes(term): terms occur in selector text only
ContentIncludes(content, term) ==
    \E i \in 1..Len(content) : Includes(content[i].selector, term)

\* the matches of rulePattern for one term, in text order: every block whose
\* selector text contains the term
RECURSIVE RulesForTerm(_, _)
RulesForTerm(content, term) ==
    IF content = <<>> THEN <<>>
    ELSE LET b == Head(content)
             specificity == calculateSpecificity(b.selector)
             rule == [selector |-> b.selector, properties |-> b.decls,
                      specificity |-> specificity,
                      specificityScore |-> specificity.total, searchTerm |-> term]
         IN  (IF Includes(b.selector, term) THEN <<rule>> ELSE <<>>)
             \o RulesForTerm(Tail(content), term)

\* the rules of one file, in match order: terms in order, text order per term
RECURSIVE ExtractRules(_, _)
ExtractRules(content, terms) ==
    IF terms = <<>> THEN <<>>
    ELSE RulesForTerm(content, Head(terms)) \o ExtractRules(content, Tail(terms))

\* allRulesBySelectorText after one more rule of file (insertion-ordered map)
TrackSelector(index, selector, file) ==
    IF \E i \in 1..Len(index) : index[i].selector = selector
    THEN [i \in 1..Len(index) |->
            IF index[i].selector = selector
            THEN [index[i] EXCEPT !.count = @ + 1, !.files = Append(@, file)]
            ELSE index[i]]
    ELSE Append(index, [selector |-> selector, count |-> 1, files |-> <<file>>])

RECURSIVE TrackRules(_, _, _)
TrackRules(index, rules, file) ==
    IF rules = <<>> THEN index
    ELSE TrackRules(TrackSelector(index, Head(rules).selector, file), Tail(rules), file)

\* variant: r goes before the rules of its own score
RECURSIVE InsertBySpecificity_early(_, _)
InsertBySpecificity_early(sorted, r) ==
    IF sorted = <<>> THEN <<r>>
    ELSE IF Head(sorted).specificityScore > r.specificityScore
         THEN <<Head(sorted)>> \o InsertBySpecificity_early(Tail(sorted), r)
         ELSE <<r>> \o sorted

\* stable insertion of r into a list sorted by specificityScore, highest first
RECURSIVE InsertBySpecificity(_, _)
InsertBySpecificity(sorted, r) ==
    IF sorted = <<>> THEN <<r>>
    ELSE IF Head(sorted).specificityScore >= r.specificityScore
         THEN <<Head(sorted)>> \o InsertBySpecificity(Tail(sorted), r)
         ELSE <<r>> \o sorted

\* fileRules.sort((a, b) => b.specificityScore - a.specificityScore)
RECURSIVE SortBySpecificity(_)
SortBySpecificity(rules) ==
    IF rules = <<>> THEN <<>>
    ELSE InsertBySpecificity(SortBySpecificity(SubSeq(rules, 1, Len(rules) - 1)),
                             rules[Len(rules)])

\* the loop over cssFiles: [matches, index] after the files of cssFiles
RECURSIVE ScanFiles(_, _, _, _)
ScanFiles(cssFiles, terms, matches, index) ==
    IF cssFiles = <<>> THEN [matches |-> matches, index |-> index]
    ELSE LET file    == Head(cssFiles)
             content == CssFileContent[file]
             hasMatch == \E i \in 1..Len(terms) : ContentIncludes(content, terms[i])
             fileRules == ExtractRules(content, terms)
         IN  IF ~hasMatch THEN ScanFiles(Tail(cssFiles), terms, matches, index)
             ELSE ScanFiles(Tail(cssFiles), terms,
                            IF Len(fileRules) > 0
                            THEN Append(matches, [file |-> file, content |-> content,
                                                  rules |-> SortBySpecificity(fileRules)])
                            ELSE matches,
                            TrackRules(index, fileRules, file))

\* the value assigned to findings.cascade
CascadeFindings(cssFiles, selector) ==
    LET terms == searchTerms(selector)
        scan  == ScanFiles(cssFiles, terms, <<>>, <<>>)
        duplicateSelectors == SelectSeq(scan.index, LAMBDA d : d.count > 1)
    IN  [cssFilesSearched |-> Len(cssFiles),
         matchesFound |-> Len(scan.matches),
         matches |-> scan.matches,
         duplicateSelectors |-> duplicateSelectors,
         searchTerms |-> terms,
         rules |-> Flatten([i \in 1..Len(scan.matches) |-> scan.matches[i].rules])]

\* --------------------------------------------- conflict detection (3) --

\* the lines of one block as content.split('\n') sees them: a one-line block
\* is a single line that starts with the selector; otherwise the selector
\* line, one line per declaration and the closing line
BlockLines(b) ==
    LET other == [isDecl |-> FALSE, prop |-> "", value |-> "", important |-> FALSE]
    IN  IF b.oneLine THEN <<other>>
        ELSE <<other>>
             \o [i \in 1..Len(b.decls) |->
                    [isDecl |-> TRUE, prop |-> b.decls[i].prop,
                     value |-> b.decls[i].value, important |-> b.decls[i].important]]
             \o <<other>>

FileLines(content) == Flatten([i \in 1..Len(content) |-> BlockLines(content[i])])

\* content.match(/!important/g).length
ImportantCount(content) ==
    SumSeq([i \in 1..Len(content) |->
        Len(SelectSeq(content[i].decls, LAMBDA d : d.important))])

\* the `properties` map of one file: for each property matched by
\* /^([a-z-]+):\s*(.+);/ its "Line n: value" entries, in insertion order
PropertyLines(content) ==
    LET lines == FileLines(content)
        declIdx == {i \in 1..Len(lines) : lines[i].isDecl}
        RECURSIVE Props(_)
        Props(i) == IF i > Len(lines) THEN <<>>
                    ELSE IF i \in declIdx THEN <<lines[i].prop>> \o Props(i + 1)
                    ELSE Props(i + 1)
        RECURSIVE Values(_, _)
        Values(prop, i) ==
            IF i > Len(lines) THEN <<>>
            ELSE IF i \in declIdx /\ lines[i].prop = prop
                 THEN <<[line |-> i, value |-> lines[i].value,
                         important |-> lines[i].important]>> \o Values(prop, i + 1)
                 ELSE Values(prop, i + 1)
        props == Unique(Props(1))
    IN  [k \in 1..Len(props) |-> [property |-> props[k], values |-> Values(props[k], 1)]]

\* the duplicateProperties entries of one match
DuplicatePropertiesOf(match) ==
    LET dups == SelectSeq(PropertyLines(match.content), LAMBDA e : Len(e.values) > 1)
    IN  [k \in 1..Len(dups) |->
            [file |-> match.file, property |-> dups[k].property, values |-> dups[k].values]]

\* the importantUsage entries of one match
ImportantUsageOf(match) ==
    IF ImportantCount(match.content) > 0
    THEN <<[file |-> match.file, count |-> ImportantCount(match.content)]>>
    ELSE <<>>

\* variant: every !important declaration counts as a conflict of its own
ConflictFindings_perDeclaration(cascade) ==
    LET matches == cascade.matches
        conflicts == cascade.duplicateSelectors
        importantUsage ==
            Flatten([k \in 1..Len(matches) |-> ImportantUsageOf(matches[k])])
        duplicateProperties ==
            Flatten([k \in 1..Len(matches) |-> DuplicatePropertiesOf(matches[k])])
    IN  [totalConflicts |-> Len(conflicts)
                            + SumSeq([k \in 1..Len(importantUsage) |-> importantUsage[k].count])
                            + Len(duplicateProperties),
         conflicts |-> conflicts,
         importantUsage |-> importantUsage,
         duplicateProperties |-> duplicateProperties]

\* the value assigned to findings.conflicts
ConflictFindings(cascade) ==
    LET matches == cascade.matches
        conflicts == cascade.duplicateSelectors
        importantUsage ==
            Flatten([k \in 1..Len(matches) |-> ImportantUsageOf(matches[k])])
        duplicateProperties ==
            Flatten([k \in 1..Len(matches) |-> DuplicatePropertiesOf(matches[k])])
    IN  [totalConflicts |-> Len(conflicts) + Len(importantUsage) + Len(duplicateProperties),
         conflicts |-> conflicts,
         importantUsage |-> importantUsage,
         duplicateProperties |-> duplicateProperties]

\* --------------------------------------------- structure analysis (1) --

\* A component file is described by what the patterns of the structure
\* scan find in it: its bgcolor attributes in text order (`=` is the JSX
\* form, `:` the sx form; at is the offset at which the attribute ends), its
\* <Grid spacing={n}> values in text order, and the tests of the component
\* analysis.
Component(bg, grid, dialog, card, g, mui, sx, style, flex, parent) ==
    [bgcolors |-> bg, gridSpacings |-> grid, dialogContentUnpadded |-> dialog,
     hasCardContent |-> card, hasGrid |-> g, hasMUI |-> mui, hasSxProp |-> sx,
     hasStyleProp |-> style, hasFlexbox |-> flex, parentContainer |-> parent]

ComponentFileContent ==
    [f \in {"Dashboard.tsx", "Card.tsx"} |->
        IF f = "Dashboard.tsx"
        THEN Component(<<[form |-> ":", value |-> "grey.50", at |-> 120]>>, <<2>>, FALSE,
                       TRUE, TRUE, TRUE, TRUE, FALSE, FALSE, "Box")
        ELSE Component(<<[form |-> "=", value |-> "background.paper", at |-> 80]>>, <<>>, TRUE,
                       TRUE, FALSE, TRUE, FALSE, FALSE, FALSE, "Card")]

\* glob(componentPattern, {cwd: workspacePath})
ComponentGlob ==
    [p \in {"**/*.tsx", "**/*Missing*.tsx", "Dashboard.tsx", "Card.tsx"} |->
        IF p = "**/*.tsx" THEN <<"Dashboard.tsx", "Card.tsx">>
        ELSE IF p = "**/*Missing*.tsx" THEN <<>>
        ELSE <<p>>]

ComponentPatterns == {"**/*.tsx", "**/*Missing*.tsx"}

\* files.slice(0, 5)
AnalyzeLimit == 5

\* content.slice(0, 2000)
SliceLimit == 2000

\* the text analysed: the attributes that end within the first SliceLimit
\* characters; the other facts describe the text kept
SliceContent(code) ==
    [code EXCEPT !.bgcolors = SelectSeq(@, LAMBDA b : b.at <= SliceLimit)]

\* the values matched by (?:grey\.50|grey\.100|white|#f(?:[0-9a-fA-F]{3,5})?)
LightBgcolors == {"grey.50", "grey.100", "white", "#f", "#ffff", "#fffff", "#ffffff"}

\* variant: only the sx form `bgcolor: '...'` is detected
analyzeMUIComponent_sxOnly(code, filePath) ==
    LET light == SelectSeq(code.bgcolors,
                           LAMBDA b : b.value \in LightBgcolors /\ b.form = ":")
        bgIssues == [i \in 1..Len(light) |->
            [type |-> "bgcolor-mismatch", severity |-> "critical",
             component |-> filePath, detail |-> light[i].value]]
        gridIssues == [i \in 1..Len(code.gridSpacings) |->
            [type |-> "grid-spacing", severity |-> "warning",
             component |-> filePath, detail |-> "spacing"]]
        dialogIssues ==
            IF code.dialogContentUnpadded
            THEN <<[type |-> "dialog-padding", severity |-> "warning",
                    component |-> filePath, detail |-> "DialogContent"]>>
            ELSE <<>>
    IN  bgIssues \o gridIssues \o dialogIssues

analyzeMUIComponent(code, filePath) ==
    LET light == SelectSeq(code.bgcolors, LAMBDA b : b.value \in LightBgcolors)
        bgIssues == [i \in 1..Len(light) |->
            [type |-> "bgcolor-mismatch", severity |-> "critical",
             component |-> filePath, detail |-> light[i].value]]
        gridIssues == [i \in 1..Len(code.gridSpacings) |->
            [type |-> "grid-spacing", severity |-> "warning",
             component |-> filePath, detail |-> "spacing"]]
        dialogIssues ==
            IF code.dialogContentUnpadded
            THEN <<[type |-> "dialog-padding", severity |-> "warning",
                    component |-> filePath, detail |-> "DialogContent"]>>
            ELSE <<>>
    IN  bgIssues \o gridIssues \o dialogIssues

\* the similarity score of two analysed components, in hundredths
SimilarityScore(c1, c2) ==
      (IF c1.hasCardContent = c2.hasCardContent THEN 30 ELSE 0)
    + (IF c1.hasGrid = c2.hasGrid THEN 20 ELSE 0)
    + (IF c1.hasMUI = c2.hasMUI THEN 20 ELSE 0)
    + (IF c1.hasSxProp = c2.hasSxProp THEN 15 ELSE 0)
    + (IF c1.hasFlexbox = c2.hasFlexbox THEN 15 ELSE 0)

\* the pairs (i, j), i < j, in the order of the nested loops
RECURSIVE PairsFrom(_, _, _)
PairsFrom(i, j, n) ==
    IF i >= n THEN <<>>
    ELSE IF j > n THEN PairsFrom(i + 1, i + 2, n)
    ELSE <<<<i, j>>>> \o PairsFrom(i, j + 1, n)

\* the value assigned to findings.structure by the structure phase
StructureFindings(files) ==
    LET analyzed == SubSeq(files, 1, Min(AnalyzeLimit, Len(files)))
        fileContents == [i \in 1..Len(analyzed) |->
            [path |-> analyzed[i],
             content |-> SliceContent(ComponentFileContent[analyzed[i]])]]
        muiIssues == Flatten([i \in 1..Len(fileContents) |->
            analyzeMUIComponent(fileContents[i].content, fileContents[i].path)])
        componentAnalysis == [i \in 1..Len(fileContents) |->
            [name |-> fileContents[i].path,
             hasCardContent |-> fileContents[i].content.hasCardContent,
             hasGrid |-> fileContents[i].content.hasGrid,
             hasMUI |-> fileContents[i].content.hasMUI,
             hasSxProp |-> fileContents[i].content.hasSxProp,
             hasFlexbox |-> fileContents[i].content.hasFlexbox,
             parentContainer |-> fileContents[i].content.parentContainer]]
        n == Len(componentAnalysis)
        similar == SelectSeq(PairsFrom(1, 2, n), LAMBDA p :
            SimilarityScore(componentAnalysis[p[1]], componentAnalysis[p[2]]) > 50)
        similarities == [k \in 1..Len(similar) |->
            [comp1 |-> componentAnalysis[similar[k][1]].name,
             comp2 |-> componentAnalysis[similar[k][2]].name,
             score |-> SimilarityScore(componentAnalysis[similar[k][1]],
                                       componentAnalysis[similar[k][2]])]]
        sharedPatterns ==
            [allUseCards |-> \A i \in 1..n : componentAnalysis[i].hasCardContent,
             allUseGrid |-> \A i \in 1..n : componentAnalysis[i].hasGrid,
             allUseMUI |-> \A i \in 1..n : componentAnalysis[i].hasMUI,
             commonParent |-> componentAnalysis[1].parentContainer]
    IN  [k \in {"filesFound", "filesAnalyzed", "files", "muiIssues",
                "componentAnalysis", "similarities", "sharedPatterns"} |->
            CASE k = "filesFound" -> Len(files)
              [] k = "filesAnalyzed" -> Len(fileContents)
              [] k = "files" -> fileContents
              [] k = "muiIssues" -> muiIssues
              [] k = "componentAnalysis" -> componentAnalysis
              [] k = "similarities" -> similarities
              [] OTHER -> sharedPatterns]

\* ------------------------------------------------ the investigation store --

\* the ids generateUUID can return
InvestigationIds == {"inv-1", "inv-2"}

\* an omitted optional investigationId
NoId == ""

Slots == {"structure", "cascade", "conflicts", "multiLevel", "browser", "solution"}

\* obj.key = value on an object with optional keys; also {...obj, key: value}
With(obj, key, value) ==
    [k \in DOMAIN obj \cup {key} |-> IF k = key THEN value ELSE obj[k]]

\* {} and the spread of undefined
EmptyObject == <<>>

\* findings.slot, or {} when the slot is absent (the spread of undefined)
SlotOrEmpty(findings, slot) ==
    IF slot \in DOMAIN findings THEN findings[slot] ELSE EmptyObject

\* the InvestigationState built by css_investigate_start
NewInvestigation(id) ==
    [id |-> id, currentPhase |-> 1, completedPhases |-> <<>>,
     phaseErrors |-> EmptyObject, findings |-> EmptyObject]

\* investigations.set(id, investigation)
StoreSet(store, id, investigation) ==
    [k \in DOMAIN store \cup {id} |-> IF k = id THEN investigation ELSE store[k]]

\* investigation.findings.slot = value, for the investigation stored under id
WriteSlot(store, id, slot, value) ==
    [store EXCEPT ![id].findings = With(@, slot, value)]

\* what a handler returns: the store it leaves and the outcome it reports
Return(store, out) == [store |-> store, out |-> out]

Outcome(kind) == [kind |-> kind]

\* ----------------------------------------------------------- handlers --

css_investigate_start(store, investigationId) ==
    Return(StoreSet(store, investigationId, NewInvestigation(investigationId)),
           [kind |-> "Started", investigationId |-> investigationId])

\* variant: the structure phase starts the findings over
css_phase1_structure_resetting(store, investigationId, componentPattern, unreadable) ==
    IF investigationId \notin DOMAIN store
    THEN Return(store, Outcome("InvestigationNotFound"))
    ELSE LET files == ComponentGlob[componentPattern]
             analyzed == SubSeq(files, 1, Min(AnalyzeLimit, Len(files)))
         IN  IF Len(files) = 0 THEN Return(store, Outcome("NoFilesFound"))
             ELSE IF Range(analyzed) \cap unreadable # {}
                  THEN Return(store, Outcome("Error"))
                  ELSE LET structure == StructureFindings(files)
                       IN  Return([store EXCEPT ![investigationId].findings =
                                       With(EmptyObject, "structure", structure)],
                                  [kind |-> "Complete", phase |-> "1",
                                   issues |-> Len(structure["muiIssues"])])

css_phase1_structure(store, investigationId, componentPattern, unreadable) ==
    IF investigationId \notin DOMAIN store
    THEN Return(store, Outcome("InvestigationNotFound"))
    ELSE LET files == ComponentGlob[componentPattern]
             analyzed == SubSeq(files, 1, Min(AnalyzeLimit, Len(files)))
         IN  IF Len(files) = 0 THEN Return(store, Outcome("NoFilesFound"))
             ELSE IF Range(analyzed) \cap unreadable # {}
                  THEN Return(store, Outcome("Error"))
                  ELSE LET structure == StructureFindings(files)
                       IN  Return(WriteSlot(store, investigationId, "structure", structure),
                                  [kind |-> "Complete", phase |-> "1",
                                   issues |-> Len(structure["muiIssues"])])

\* variant: the cascade findings live in one object shared by all investigations
css_phase2_cascade_shared(store, investigationId, cssPattern, selector, unreadable) ==
    IF investigationId \notin DOMAIN store
    THEN Return(store, Outcome("InvestigationNotFound"))
    ELSE LET cssFiles == CssGlob[cssPattern]
         IN  IF Len(cssFiles) = 0 THEN Return(store, Outcome("NoFilesFound"))
             ELSE IF Range(cssFiles) \cap unreadable # {}
                  THEN Return(store, Outcome("Error"))
                  ELSE LET cascade == CascadeFindings(cssFiles, selector)
                       IN  Return([k \in DOMAIN store |->
                                      [store[k] EXCEPT !.findings = With(@, "cascade", cascade)]],
                                  [kind |-> "Complete", phase |-> "2",
                                   issues |-> Len(cascade.duplicateSelectors)])

\* variant: a search that finds no stylesheet stores an empty trace
css_phase2_cascade_empty(store, investigationId, cssPattern, selector, unreadable) ==
    IF investigationId \notin DOMAIN store
    THEN Return(store, Outcome("InvestigationNotFound"))
    ELSE LET cssFiles == CssGlob[cssPattern]
             cascade == CascadeFindings(cssFiles, selector)
         IN  IF Len(cssFiles) = 0
             THEN Return(WriteSlot(store, investigationId, "cascade", cascade),
                         Outcome("NoFilesFound"))
             ELSE IF Range(cssFiles) \cap unreadable # {}
                  THEN Return(store, Outcome("Error"))
                  ELSE Return(WriteSlot(store, investigationId, "cascade", cascade),
                              [kind |-> "Complete", phase |-> "2",
                               issues |-> Len(cascade.duplicateSelectors)])

css_phase2_cascade(store, investigationId, cssPattern, selector, unreadable) ==
    IF investigationId \notin DOMAIN store
    THEN Return(store, Outcome("InvestigationNotFound"))
    ELSE LET cssFiles == CssGlob[cssPattern]
         IN  IF Len(cssFiles) = 0 THEN Return(store, Outcome("NoFilesFound"))
             ELSE IF Range(cssFiles) \cap unreadable # {}
                  THEN Return(store, Outcome("Error"))
                  ELSE LET cascade == CascadeFindings(cssFiles, selector)
                       IN  Return(WriteSlot(store, investigationId, "cascade", cascade),
                                  [kind |-> "Complete", phase |-> "2",
                                   issues |-> Len(cascade.duplicateSelectors)])

\* variant: a missing cascade slot is analysed as an empty trace
css_phase3_conflicts_ungated(store, investigationId) ==
    IF investigationId \notin DOMAIN store
    THEN Return(store, Outcome("MustCompletePhase2"))
    ELSE LET findings == store[investigationId].findings
             cascade == IF "cascade" \in DOMAIN findings THEN findings["cascade"]
                        ELSE [matches |-> <<>>, duplicateSelectors |-> <<>>]
             conflicts == ConflictFindings(cascade)
         IN  Return(WriteSlot(store, investigationId, "conflicts", conflicts),
                    [kind |-> "Complete", phase |-> "3",
                     issues |-> conflicts.totalConflicts])

\* variant: the entries of the previous run are kept and the new ones appended
css_phase3_conflicts_accumulating(store, investigationId) ==
    IF \/ investigationId \notin DOMAIN store
       \/ "cascade" \notin DOMAIN store[investigationId].findings
    THEN Return(store, Outcome("MustCompletePhase2"))
    ELSE LET findings == store[investigationId].findings
             fresh == ConflictFindings(findings["cascade"])
             previous == IF "conflicts" \in DOMAIN findings
                         THEN findings["conflicts"].duplicateProperties ELSE <<>>
             conflicts == [fresh EXCEPT
                 !.duplicateProperties = previous \o @,
                 !.totalConflicts = @ + Len(previous)]
         IN  Return(WriteSlot(store, investigationId, "conflicts", conflicts),
                    [kind |-> "Complete", phase |-> "3",
                     issues |-> conflicts.totalConflicts])

css_phase3_conflicts(store, investigationId) ==
    IF \/ investigationId \notin DOMAIN store
       \/ "cascade" \notin DOMAIN store[investigationId].findings
    THEN Return(store, Outcome("MustCompletePhase2"))
    ELSE LET conflicts == ConflictFindings(store[investigationId].findings["cascade"])
         IN  Return(WriteSlot(store, investigationId, "conflicts", conflicts),
                    [kind |-> "Complete", phase |-> "3",
                     issues |-> conflicts.totalConflicts])

CascadeLayers ==
    <<"Global/Reset styles", "Framework defaults", "Component styles", "Inline styles">>

\* the value assigned to findings.multiLevel
MultiLevelFindings(findings) ==
    [cascadeLayers |-> CascadeLayers,
     inheritanceChain |->
        IF "files" \in DOMAIN SlotOrEmpty(findings, "structure")
        THEN findings["structure"]["files"] ELSE <<>>,
     overriddenProperties |->
        IF "conflicts" \in DOMAIN findings
        THEN findings["conflicts"].duplicateProperties ELSE <<>>]

\* variant: the multi-level phase also refreshes the conflict findings it reads
css_phase4_multilevel_refreshing(store, investigationId) ==
    IF \/ investigationId \notin DOMAIN store
       \/ "conflicts" \notin DOMAIN store[investigationId].findings
    THEN Return(store, Outcome("MustCompletePhase3"))
    ELSE LET findings == store[investigationId].findings
             analysis == MultiLevelFindings(findings)
             refreshed == [findings["conflicts"] EXCEPT !.duplicateProperties = <<>>]
         IN  Return(WriteSlot(WriteSlot(store, investigationId, "conflicts", refreshed),
                              investigationId, "multiLevel", analysis),
                    [kind |-> "Complete", phase |-> "4",
                     issues |-> Len(analysis.overriddenProperties)])

css_phase4_multilevel(store, investigationId) ==
    IF \/ investigationId \notin DOMAIN store
       \/ "conflicts" \notin DOMAIN store[investigationId].findings
    THEN Return(store, Outcome("MustCompletePhase3"))
    ELSE LET analysis == MultiLevelFindings(store[investigationId].findings)
         IN  Return(WriteSlot(store, investigationId, "multiLevel", analysis),
                    [kind |-> "Complete", phase |-> "4",
                     issues |-> Len(analysis.overriddenProperties)])

\* ------------------------------------------- live browser inspection (4b) --

\* What the DevTools collaborator does on one call: conn is "running",
\* "launchable" (not running; an auto-launch connects within the retries) or
\* "unlaunchable"; page is "found", "missing" (querySelector returns no
\* node) or "protocolError" (a DevTools call rejects).
Browser(conn, page, rules) == [conn |-> conn, page |-> page, matchedRules |-> rules]

MatchedRule(sel, origin) == [selector |-> sel, origin |-> origin, properties |-> <<>>]

Browsers ==
    { Browser("running", "found", <<MatchedRule(SelHA, "user-agent"), MatchedRule(SelA, "regular")>>),
      Browser("launchable", "found", <<MatchedRule(SelHA, "user-agent"), MatchedRule(SelA, "regular")>>),
      Browser("unlaunchable", "found", <<>>),
      Browser("running", "missing", <<>>),
      Browser("running", "protocolError", <<>>) }

ElementSelectors == {SelA}

BrowserFailures ==
    {"BrowserNotRunning", "AutoLaunchFailed", "ElementNotFound", "BrowserInspectionFailed"}

\* variant: a failed inspection is recorded as empty browser findings
css_phase4b_browser_recording(store, investigationId, elementSelector, autoLaunch, browser) ==
    LET failed(kind) ==
            Return(WriteSlot(store, investigationId, "browser",
                       [computedStyles |-> [display |-> "block"], matchedRules |-> <<>>,
                        elementSelector |-> elementSelector, screenshotPath |-> "none"]),
                   Outcome(kind))
    IN  IF investigationId \notin DOMAIN store
        THEN Return(store, Outcome("InvestigationNotFound"))
        ELSE IF browser.conn # "running" /\ ~autoLaunch THEN failed("BrowserNotRunning")
        ELSE IF browser.conn = "unlaunchable" THEN failed("AutoLaunchFailed")
        ELSE IF browser.page = "protocolError" THEN failed("BrowserInspectionFailed")
        ELSE IF browser.page = "missing" THEN failed("ElementNotFound")
        ELSE Return(WriteSlot(store, investigationId, "browser",
                        [computedStyles |-> [display |-> "block"],
                         matchedRules |-> browser.matchedRules,
                         elementSelector |-> elementSelector,
                         screenshotPath |-> "screenshot.png"]),
                    [kind |-> "Complete", phase |-> "4b",
                     issues |-> Len(browser.matchedRules)])

css_phase4b_browser(store, investigationId, elementSelector, autoLaunch, browser) ==
    IF investigationId \notin DOMAIN store
    THEN Return(store, Outcome("InvestigationNotFound"))
    ELSE IF browser.conn # "running" /\ ~autoLaunch
    THEN Return(store, Outcome("BrowserNotRunning"))
    ELSE IF browser.conn = "unlaunchable"
    THEN Return(store, Outcome("AutoLaunchFailed"))
    ELSE IF browser.page = "protocolError"
    THEN Return(store, Outcome("BrowserInspectionFailed"))
    ELSE IF browser.page = "missing"
    THEN Return(store, Outcome("ElementNotFound"))
    ELSE Return(WriteSlot(store, investigationId, "browser",
                    [computedStyles |-> [display |-> "block"],
                     matchedRules |-> browser.matchedRules,
                     elementSelector |-> elementSelector,
                     screenshotPath |-> "screenshot.png"]),
                [kind |-> "Complete", phase |-> "4b",
                 issues |-> Len(browser.matchedRules)])

\* --------------------------------------------------- solution design (5) --

Issues == {"button not centered"}

\* variant: the browser winner is the first matched rule
Mismatch_first(findings) ==
    IF /\ "browser" \in DOMAIN findings
       /\ "cascade" \in DOMAIN findings
       /\ Len(findings["cascade"].rules) > 0
    THEN LET staticWinner == findings["cascade"].rules[1]
             matchedRules == findings["browser"].matchedRules
         IN  IF Len(matchedRules) > 0
                /\ staticWinner.selector # matchedRules[1].selector
             THEN <<[static |-> staticWinner.selector,
                     browser |-> matchedRules[1].selector,
                     origin |-> matchedRules[1].origin]>>
             ELSE <<>>
    ELSE <<>>

\* the static-vs-browser mismatch insight: empty, or one entry naming both
Mismatch(findings) ==
    IF /\ "browser" \in DOMAIN findings
       /\ "cascade" \in DOMAIN findings
       /\ Len(findings["cascade"].rules) > 0
    THEN LET staticWinner == findings["cascade"].rules[1]
             matchedRules == findings["browser"].matchedRules
         IN  IF Len(matchedRules) > 0
                /\ staticWinner.selector # matchedRules[Len(matchedRules)].selector
             THEN <<[static |-> staticWinner.selector,
                     browser |-> matchedRules[Len(matchedRules)].selector,
                     origin |-> matchedRules[Len(matchedRules)].origin]>>
             ELSE <<>>
    ELSE <<>>

\* the files named by "Edit these files": first occurrences, in order
FixedFiles(findings) ==
    IF "conflicts" \in DOMAIN findings
    THEN LET dups == findings["conflicts"].duplicateProperties
         IN  Unique([i \in 1..Len(dups) |-> dups[i].file])
    ELSE <<>>

\* diffPct < 1, diffPct < 5, otherwise; diffPercentage is kept in hundredths
VisualStatus(visualDiff) ==
    IF visualDiff.diffPercentage < 100 THEN "excellent"
    ELSE IF visualDiff.diffPercentage < 500 THEN "minor" ELSE "significant"

\* what the solution report states
SolutionReport(findings, originalIssue) ==
    LET hasBrowserData == "browser" \in DOMAIN findings
        structure == SlotOrEmpty(findings, "structure")
        hasConflicts == "conflicts" \in DOMAIN findings
        hasCascade == "cascade" \in DOMAIN findings
        duplicateFixes == IF hasConflicts THEN Len(findings["conflicts"].duplicateProperties) ELSE 0
        importantFixes == IF hasConflicts THEN Len(findings["conflicts"].importantUsage) ELSE 0
        cssFiles == IF hasCascade
                    THEN [i \in 1..Len(findings["cascade"].matches) |->
                             findings["cascade"].matches[i].file]
                    ELSE <<>>
        solution == SlotOrEmpty(findings, "solution")
    IN  [filesAnalyzed |-> IF "filesFound" \in DOMAIN structure THEN structure["filesFound"] ELSE 0,
         cssFilesSearched |-> IF hasCascade THEN findings["cascade"].cssFilesSearched ELSE 0,
         conflictsFound |-> IF hasConflicts THEN findings["conflicts"].totalConflicts ELSE 0,
         liveBrowserData |-> hasBrowserData,
         rulesApplied |-> IF hasBrowserData
                          THEN [i \in 1..Len(findings["browser"].matchedRules) |->
                                   findings["browser"].matchedRules[i].selector]
                          ELSE <<>>,
         mismatch |-> Mismatch(findings),
         duplicateFixes |-> duplicateFixes,
         importantFixes |-> importantFixes,
         cssFiles |-> cssFiles,
         noMajorIssues |-> duplicateFixes = 0 /\ importantFixes = 0 /\ Len(cssFiles) = 0,
         visualComparison |-> IF "visualDiff" \in DOMAIN solution
                              THEN <<VisualStatus(solution["visualDiff"])>> ELSE <<>>,
         fixedFiles |-> FixedFiles(findings),
         originalIssue |-> originalIssue]

\* variant: the solution slot is written anew, without the spread
css_phase5_solution_fresh(store, investigationId, originalIssue) ==
    IF \/ investigationId \notin DOMAIN store
       \/ "multiLevel" \notin DOMAIN store[investigationId].findings
    THEN Return(store, Outcome("MustCompletePhase4"))
    ELSE LET findings == store[investigationId].findings
             solution == SolutionReport(findings, originalIssue)
             stored == With(With(EmptyObject, "recommendation", solution),
                            "fixedFiles", FixedFiles(findings))
         IN  Return(WriteSlot(store, investigationId, "solution", stored),
                    [kind |-> "Complete", phase |-> "5", report |-> solution])

css_phase5_solution(store, investigationId, originalIssue) ==
    IF \/ investigationId \notin DOMAIN store
       \/ "multiLevel" \notin DOMAIN store[investigationId].findings
    THEN Return(store, Outcome("MustCompletePhase4"))
    ELSE LET findings == store[investigationId].findings
             solution == SolutionReport(findings, originalIssue)
             stored == With(With(SlotOrEmpty(findings, "solution"),
                                 "recommendation", solution),
                            "fixedFiles", FixedFiles(findings))
         IN  Return(WriteSlot(store, investigationId, "solution", stored),
                    [kind |-> "Complete", phase |-> "5", report |-> solution])

\* ------------------------------------------------- screenshot operations --

\* What the image collaborator does on one comparison: outcome is
\* "unreadable" (a read or decode rejects), "dimensionMismatch" or "ok".
Comparison(outcome, diffPixels, totalPixels) ==
    [outcome |-> outcome, diffPixels |-> diffPixels, totalPixels |-> totalPixels]

Comparisons ==
    { Comparison("unreadable", 0, 1), Comparison("dimensionMismatch", 0, 1),
      Comparison("ok", 3, 100) }

\* ((numDiffPixels / totalPixels) * 100).toFixed(2), in hundredths
DiffPercentage(diffPixels, totalPixels) ==
    (diffPixels * 10000 * 2 + totalPixels) \div (2 * totalPixels)

css_compare_screenshots(store, investigationId, comparison) ==
    IF comparison.outcome = "unreadable"
    THEN Return(store, Outcome("ComparisonFailed"))
    ELSE IF comparison.outcome = "dimensionMismatch"
    THEN Return(store, Outcome("DimensionsMismatch"))
    ELSE LET visualDiff ==
                 [expectedImage |-> "expected.png", actualImage |-> "actual.png",
                  diffImage |-> "actual-diff.png",
                  diffPixels |-> comparison.diffPixels,
                  diffPercentage |-> DiffPercentage(comparison.diffPixels,
                                                    comparison.totalPixels),
                  totalPixels |-> comparison.totalPixels]
             out == [kind |-> "Complete", phase |-> "compare",
                     issues |-> visualDiff.diffPercentage]
         IN  IF investigationId # NoId /\ investigationId \in DOMAIN store
             THEN Return(WriteSlot(store, investigationId, "solution",
                             With(SlotOrEmpty(store[investigationId].findings, "solution"),
                                  "visualDiff", visualDiff)),
                         out)
             ELSE Return(store, out)

\* What one screenshot is: outcome is "invalidPath", "missing" (fs.access
\* rejects), "unreadable" (the read or decode rejects) or "ok"; the shares
\* of light, dark and grey pixels are in percent.
Screenshot(outcome, white, black, grey) ==
    [outcome |-> outcome, white |-> white, black |-> black, grey |-> grey]

Screenshots ==
    { Screenshot("invalidPath", 0, 0, 0), Screenshot("missing", 0, 0, 0),
      Screenshot("unreadable", 0, 0, 0), Screenshot("ok", 60, 10, 30) }

ExpectedBackgrounds == {"dark"}

\* the issues detected from the pixel shares
ScreenshotIssues(shot, expectedBackground) ==
       (IF shot.white > 30 THEN <<"high-light-content">> ELSE <<>>)
    \o (IF shot.black > 40 /\ shot.white > 15 THEN <<"dark-with-light">> ELSE <<>>)
    \o (IF shot.grey > 50 THEN <<"high-grey">> ELSE <<>>)
    \o (IF expectedBackground = "dark" /\ shot.white > 25 THEN <<"expected-dark">> ELSE <<>>)
    \o (IF expectedBackground = "light" /\ shot.black > 25 THEN <<"expected-light">> ELSE <<>>)

css_analyze_screenshot(store, investigationId, shot, expectedBackground) ==
    IF shot.outcome = "invalidPath" THEN Return(store, Outcome("InvalidPath"))
    ELSE IF shot.outcome = "missing" THEN Return(store, Outcome("FileNotFound"))
    ELSE IF shot.outcome = "unreadable" THEN Return(store, Outcome("AnalysisFailed"))
    ELSE LET issues == ScreenshotIssues(shot, expectedBackground)
             screenshotAnalysis ==
                 [screenshotPath |-> "screenshot.png",
                  whitePercentage |-> shot.white, blackPercentage |-> shot.black,
                  greyPercentage |-> shot.grey, issues |-> issues]
             out == [kind |-> "Complete", phase |-> "screenshot", issues |-> Len(issues)]
         IN  IF investigationId # NoId /\ investigationId \in DOMAIN store
             THEN Return(WriteSlot(store, investigationId, "structure",
                             With(SlotOrEmpty(store[investigationId].findings, "structure"),
                                  "screenshotAnalysis", screenshotAnalysis)),
                         out)
             ELSE Return(store, out)

\* ------------------------------------------------------------ batch scope --

\* the similarity of one component to the batch target, in hundredths
BatchSimilarity(c) ==
      (IF c.hasCardContent THEN 30 ELSE 0)
    + (IF c.hasGrid THEN 20 ELSE 0)
    + (IF c.hasSxProp THEN 20 ELSE 0)
    + (IF c.hasStyleProp THEN 15 ELSE 0)
    + (IF c.hasMUI THEN 15 ELSE 0)

\* stable insertion into a list sorted by similarity, highest first
RECURSIVE InsertBySimilarity(_, _)
InsertBySimilarity(sorted, c) ==
    IF sorted = <<>> THEN <<c>>
    ELSE IF Head(sorted).similarity >= c.similarity
         THEN <<Head(sorted)>> \o InsertBySimilarity(Tail(sorted), c)
         ELSE <<c>> \o sorted

\* components.sort((a, b) => b.similarity - a.similarity)
RECURSIVE SortBySimilarity(_)
SortBySimilarity(cs) ==
    IF cs = <<>> THEN <<>>
    ELSE InsertBySimilarity(SortBySimilarity(SubSeq(cs, 1, Len(cs) - 1)), cs[Len(cs)])

css_batch_apply(store, investigationId, searchPattern, unreadable) ==
    LET files == ComponentGlob[searchPattern]
    IN  IF Len(files) = 0 THEN Return(store, Outcome("NoFilesFound"))
        ELSE IF Range(files) \cap unreadable # {} THEN Return(store, Outcome("Error"))
        ELSE LET components == SortBySimilarity([i \in 1..Len(files) |->
                     [path |-> files[i],
                      similarity |-> BatchSimilarity(ComponentFileContent[files[i]])]])
                 batchScope ==
                     [targetComponent |-> "target",
                      similarComponents |-> components,
                      recommendation |-> IF Len(components) > 1 THEN "batch" ELSE "single"]
                 out == [kind |-> "Complete", phase |-> "batch", issues |-> Len(components)]
             IN  IF investigationId # NoId /\ investigationId \in DOMAIN store
                 THEN Return(WriteSlot(store, investigationId, "structure",
                                 With(SlotOrEmpty(store[investigationId].findings, "structure"),
                                      "batchScope", batchScope)),
                             out)
                 ELSE Return(store, out)

\* ------------------------------------------------------- the state machine --

VARIABLES
    investigations,   \* the process-wide Map from investigation id to state
    ret,              \* the last tool call: its name, its arguments, its outcome
    calls,            \* the number of tool calls served so far
    inflight,         \* the handler invocations suspended at an await: their locals
    fileSystem,       \* the file system: the bytes of each path that exists
    rollbackPoints,   \* RollbackManager.rollbackPoints, in insertion order
    fixHistory,       \* FixValidator.fixHistory
    logs,             \* the entries of the log files
    clock,            \* Date.now()
    taken             \* history: the file system as it was when each rollback
                      \* point was created, by id

vars == <<investigations, ret, calls, inflight, fileSystem, rollbackPoints, fixHistory,
          logs, clock, taken>>

\* the state outside the investigation store
rest == <<inflight, fileSystem, rollbackPoints, fixHistory, logs, clock, taken>>

\* no invocation is suspended, and RollbackManager and FixValidator are new
RestNew ==
    /\ inflight = <<>>
    /\ fileSystem = <<>>
    /\ rollbackPoints = <<>>
    /\ fixHistory = <<>>
    /\ logs = <<>>
    /\ clock = 0
    /\ taken = <<>>

\* the length of the sessions explored: of the sessions with one
\* investigation, and of the sessions in which a second one has been started
MaxCalls == 6

MaxCallsTwo == 5

CallBudget(store) ==
    IF Cardinality(DOMAIN store) > 1 THEN MaxCallsTwo ELSE MaxCalls

\* the investigationId arguments of the calls; an id that generateUUID has
\* not returned yet is an id the store does not know
CallIds == InvestigationIds

\* the optional investigationId arguments
OptionalIds == CallIds \cup {NoId}

NoArgs == [k \in {} |-> ""]

\* one tool call: the handler runs to its end on the store and returns r;
\* args holds the arguments other than investigationId together with what
\* the collaborators (file system, browser, image decoder) do
Call(op, investigationId, args, r) ==
    /\ calls < CallBudget(investigations)
    /\ calls' = calls + 1
    /\ investigations' = r.store
    /\ ret' = [op |-> op, investigationId |-> investigationId, args |-> args,
               out |-> r.out]
    /\ UNCHANGED rest

Init ==
    /\ investigations = EmptyObject
    /\ ret = [op |-> "none", investigationId |-> NoId, args |-> NoArgs,
              out |-> Outcome("none")]
    /\ calls = 0
    /\ RestNew

\* generateUUID returns an id the store does not hold yet
InvestigateStart ==
    \E id \in InvestigationIds \ DOMAIN investigations :
        Call("css_investigate_start", id, NoArgs,
             css_investigate_start(investigations, id))

Phase1Structure ==
    \E id \in CallIds, pattern \in ComponentPatterns, unreadable \in ReadFailures :
        Call("css_phase1_structure", id,
             [pattern |-> pattern, unreadable |-> unreadable],
             css_phase1_structure(investigations, id, pattern, unreadable))

Phase2Cascade ==
    \E id \in CallIds, pattern \in CssPatterns, selector \in Selectors,
       unreadable \in ReadFailures :
        Call("css_phase2_cascade", id,
             [pattern |-> pattern, selector |-> selector, unreadable |-> unreadable],
             css_phase2_cascade(investigations, id, pattern, selector, unreadable))

Phase3Conflicts ==
    \E id \in CallIds :
        Call("css_phase3_conflicts", id, NoArgs,
             css_phase3_conflicts(investigations, id))

Phase4MultiLevel ==
    \E id \in CallIds :
        Call("css_phase4_multilevel", id, NoArgs,
             css_phase4_multilevel(investigations, id))

Phase4bBrowser ==
    \E id \in CallIds, element \in ElementSelectors, autoLaunch \in BOOLEAN,
       browser \in Browsers :
        Call("css_phase4b_browser", id,
             [selector |-> element, autoLaunch |-> autoLaunch, browser |-> browser],
             css_phase4b_browser(investigations, id, element, autoLaunch, browser))

Phase5Solution ==
    \E id \in CallIds, issue \in Issues :
        Call("css_phase5_solution", id, [issue |-> issue],
             css_phase5_solution(investigations, id, issue))

CompareScreenshots ==
    \E id \in OptionalIds, comparison \in Comparisons :
        Call("css_compare_screenshots", id, [comparison |-> comparison],
             css_compare_screenshots(investigations, id, comparison))

AnalyzeScreenshot ==
    \E id \in OptionalIds, shot \in Screenshots, expected \in ExpectedBackgrounds :
        Call("css_analyze_screenshot", id, [shot |-> shot, expected |-> expected],
             css_analyze_screenshot(investigations, id, shot, expected))

BatchApply ==
    \E id \in OptionalIds, pattern \in ComponentPatterns, unreadable \in ReadFailures :
        Call("css_batch_apply", id, [pattern |-> pattern, unreadable |-> unreadable],
             css_batch_apply(investigations, id, pattern, unreadable))

Next ==
    \/ InvestigateStart
    \/ Phase1Structure
    \/ Phase2Cascade
    \/ Phase3Conflicts
    \/ Phase4MultiLevel
    \/ Phase4bBrowser
    \/ Phase5Solution
    \/ CompareScreenshots
    \/ AnalyzeScreenshot
    \/ BatchApply

Spec == Init /\ [][Next]_vars

\* ------------------------------------------- tracing in one investigation --

\* the cssPattern and selector arguments of the traces
TracePatterns == DOMAIN CssGlob

TraceSelectors == {SelA, SelAB, SelHA, SelZ, SelDiv}

\* the number of calls served in the sessions explored
MaxTraceCalls == 4

\* css_investigate_start has returned "inv-1"
InitCascade ==
    LET r == css_investigate_start(EmptyObject, "inv-1")
    IN  /\ investigations = r.store
        /\ ret = [op |-> "css_investigate_start", investigationId |-> "inv-1",
                  args |-> NoArgs, out |-> r.out]
        /\ calls = 1
        /\ RestNew

TraceCascade ==
    \E pattern \in TracePatterns, selector \in TraceSelectors :
        /\ calls < MaxTraceCalls
        /\ Call("css_phase2_cascade", "inv-1",
                [pattern |-> pattern, selector |-> selector, unreadable |-> {}],
                css_phase2_cascade(investigations, "inv-1", pattern, selector, {}))

DetectConflicts ==
    /\ calls < MaxTraceCalls
    /\ Call("css_phase3_conflicts", "inv-1", NoArgs,
            css_phase3_conflicts(investigations, "inv-1"))

NextCascade ==
    \/ TraceCascade
    \/ DetectConflicts

SpecCascade == InitCascade /\ [][NextCascade]_vars

\* ------------------------------------- reconciling with the live browser --

\* what the DevTools collaborator returns in these sessions; getMatchedStyles
\* lists the rules in the order the browser applies them
ReconcileBrowsers ==
    { Browser("running", "found", <<MatchedRule(SelHA, "user-agent"), MatchedRule(SelA, "regular")>>),
      Browser("running", "found", <<MatchedRule(SelA, "regular"), MatchedRule(SelAB, "regular")>>),
      Browser("running", "found", <<MatchedRule(SelAB, "regular"), MatchedRule(SelA, "injected")>>),
      Browser("running", "found", <<>>),
      Browser("running", "missing", <<>>) }

\* the number of calls served in the sessions explored
MaxReconcileCalls == 6

\* phases 2, 3 and 4 have run, in this order, on a new investigation
InitReconcile ==
    \E pattern \in TracePatterns, selector \in TraceSelectors :
    \E started \in {css_investigate_start(EmptyObject, "inv-1").store} :
    \E traced \in {css_phase2_cascade(started, "inv-1", pattern, selector, {}).store} :
    \E checked \in {css_phase3_conflicts(traced, "inv-1").store} :
    \E r \in {css_phase4_multilevel(checked, "inv-1")} :
        /\ investigations = r.store
        /\ ret = [op |-> "css_phase4_multilevel", investigationId |-> "inv-1",
                  args |-> NoArgs, out |-> r.out]
        /\ calls = 4
        /\ RestNew

InspectBrowser ==
    \E element \in ElementSelectors, browser \in ReconcileBrowsers :
        /\ calls < MaxReconcileCalls
        /\ Call("css_phase4b_browser", "inv-1",
                [selector |-> element, autoLaunch |-> FALSE, browser |-> browser],
                css_phase4b_browser(investigations, "inv-1", element, FALSE, browser))

DesignSolution ==
    \E issue \in Issues :
        /\ calls < MaxReconcileCalls
        /\ Call("css_phase5_solution", "inv-1", [issue |-> issue],
                css_phase5_solution(investigations, "inv-1", issue))

NextReconcile ==
    \/ InspectBrowser
    \/ DesignSolution

SpecReconcile == InitReconcile /\ [][NextReconcile]_vars

\* ------------------------------------------------- scoring one selector --

\* the characters and the longest length of the selector strings scored
SelectorChars == {"a", "1", "#", ".", ":", "[", "]", "=", " ", "*"}

MaxSelectorLen == 3

\* the selectors of the unit tests
SelButton   == <<".", "b", "u", "t", "t", "o", "n">>
SelHeader   == <<"#", "h", "e", "a", "d", "e", "r">>
SelHover    == <<"a", ":", "h", "o", "v", "e", "r">>
SelCombined ==
    <<"d", "i", "v", ".", "c", "o", "n", "t", "a", "i", "n", "e", "r", " ", "#", "h", "e", "a", "d", "e", "r", " ", ".", "n", "a", "v", "-", "i", "t", "e", "m">>
SelInput    ==
    <<"i", "n", "p", "u", "t", "[", "t", "y", "p", "e", "=", "\"", "t", "e", "x", "t", "\"", "]">>

\* further selectors: a pseudo-element, a negation, an unknown pseudo-element
SelBefore   == <<"a", ":", ":", "b", "e", "f", "o", "r", "e">>
SelNot      == <<"a", ":", "n", "o", "t", "(", ".", "b", ")">>
SelMarker   == <<"a", ":", ":", "m", "a", "r", "k", "e", "r">>

SpecificitySelectors ==
    UNION {[1..n -> SelectorChars] : n \in 0..MaxSelectorLen}
    \cup {SelDiv, SelButton, SelHeader, SelHover, SelCombined, SelInput,
          SelBefore, SelNot, SelMarker, SelA, SelAB, SelHA, SelBA}

\* a selector string is about to be scored
InitSpecificity ==
    /\ investigations = EmptyObject
    /\ \E selector \in SpecificitySelectors :
           ret = [op |-> "none", investigationId |-> NoId,
                  args |-> [selector |-> selector], out |-> Outcome("none")]
    /\ calls = 0
    /\ RestNew

Score ==
    /\ ret.op = "none"
    /\ ret' = [ret EXCEPT !.op = "calculateSpecificity",
                          !.out = calculateSpecificity(ret.args.selector)]
    /\ calls' = calls + 1
    /\ UNCHANGED <<investigations, rest>>

NextSpecificity == Score

SpecSpecificity == InitSpecificity /\ [][NextSpecificity]_vars

\* ----------------------------------------------- analysing one component --

\* the bgcolor attributes of the component texts analysed
BgForms == {"=", ":"}

BgAttributes ==
    [form : BgForms,
     value : {"grey.50", "grey.100", "white", "background.paper", "grey.900"},
     at : {120, 2400}]

\* the most bgcolor attributes in one text
MaxAttributes == 2

ComponentTexts ==
    {Component(bg, <<2>>, TRUE, TRUE, TRUE, TRUE, TRUE, FALSE, FALSE, "Box") :
        bg \in UNION {[1..n -> BgAttributes] : n \in 0..MaxAttributes}}

\* the structure phase has read a file
InitAnalyzer ==
    /\ investigations = EmptyObject
    /\ \E code \in ComponentTexts :
           ret = [op |-> "none", investigationId |-> NoId,
                  args |-> [code |-> code, file |-> "test.tsx"], out |-> Outcome("none")]
    /\ calls = 0
    /\ RestNew

\* the file is cut and analysed
AnalyzeComponent ==
    /\ ret.op = "none"
    /\ ret' = [ret EXCEPT !.op = "analyzeMUIComponent",
                          !.out = analyzeMUIComponent(SliceContent(ret.args.code),
                                                      ret.args.file)]
    /\ calls' = calls + 1
    /\ UNCHANGED <<investigations, rest>>

NextAnalyzer == AnalyzeComponent

SpecAnalyzer == InitAnalyzer /\ [][NextAnalyzer]_vars

\* ------------------------------------ two invocations on one investigation --

\* the handles of the invocations in flight
Invocations == {1, 2}

\* the arguments of the interleaved invocations
InterleavePatterns == {"**/*.css", "**/*.less", "**/*.scss"}

InterleaveSelectors == {SelA, SelZ}

InterleaveComponents == DOMAIN ComponentGlob

\* an invocation that has not been made yet
Idle ==
    [op |-> "none", pattern |-> "", selector |-> <<>>, pc |-> "idle",
     remaining |-> <<>>, found |-> 0, terms |-> <<>>, matches |-> <<>>,
     index |-> <<>>, reads |-> <<>>, out |-> Outcome("none"), returnedAt |-> 0]

\* css_investigate_start has returned "inv-1"; no invocation is in flight
InitInterleave ==
    \E r \in {css_investigate_start(EmptyObject, "inv-1")} :
        /\ investigations = r.store
        /\ ret = [op |-> "css_investigate_start", investigationId |-> "inv-1",
                  args |-> NoArgs, out |-> r.out]
        /\ calls = 1
        /\ inflight = [k \in Invocations |-> Idle]
        /\ fileSystem = <<>>
        /\ rollbackPoints = <<>>
        /\ fixHistory = <<>>
        /\ logs = <<>>
        /\ clock = 0
        /\ taken = <<>>

\* the invocation k returns out; what it has written is in store
Returns(flight, k, store, out) ==
    /\ inflight' = [flight EXCEPT ![k].pc = "returned", ![k].out = out,
                                  ![k].returnedAt = clock + 1]
    /\ investigations' = store
    /\ ret' = [op |-> flight[k].op, investigationId |-> "inv-1",
               args |-> [pattern |-> flight[k].pattern, selector |-> flight[k].selector],
               out |-> out]
    /\ calls' = calls + 1
    /\ clock' = clock + 1
    /\ UNCHANGED <<fileSystem, rollbackPoints, fixHistory, logs, taken>>

\* the invocation k is suspended again
Suspends(flight) ==
    /\ inflight' = flight
    /\ clock' = clock + 1
    /\ UNCHANGED <<investigations, ret, calls, fileSystem, rollbackPoints, fixHistory,
                   logs, taken>>

\* a cascade invocation finds the investigation and awaits glob
BeginCascade ==
    \E k \in Invocations, pattern \in InterleavePatterns, selector \in InterleaveSelectors :
        /\ inflight[k].pc = "idle"
        /\ "inv-1" \in DOMAIN investigations
        /\ Suspends([inflight EXCEPT ![k].op = "css_phase2_cascade",
                                     ![k].pattern = pattern,
                                     ![k].selector = selector,
                                     ![k].pc = "glob"])

\* a structure invocation finds the investigation and awaits glob
BeginStructure ==
    \E k \in Invocations, pattern \in InterleaveComponents :
        /\ inflight[k].pc = "idle"
        /\ "inv-1" \in DOMAIN investigations
        /\ Suspends([inflight EXCEPT ![k].op = "css_phase1_structure",
                                     ![k].pattern = pattern,
                                     ![k].pc = "glob"])

GlobOf(f) ==
    IF f.op = "css_phase2_cascade" THEN CssGlob[f.pattern] ELSE ComponentGlob[f.pattern]

\* glob resolves with no file: the invocation returns
GlobEmpty ==
    \E k \in Invocations :
        /\ inflight[k].pc = "glob"
        /\ GlobOf(inflight[k]) = <<>>
        /\ Returns(inflight, k, investigations, Outcome("NoFilesFound"))

\* glob resolves with files: the invocation awaits the first read
GlobFound ==
    \E k \in Invocations :
        /\ inflight[k].pc = "glob"
        /\ GlobOf(inflight[k]) # <<>>
        /\ Suspends([inflight EXCEPT ![k].pc = "read",
                                     ![k].remaining = GlobOf(inflight[k]),
                                     ![k].found = Len(GlobOf(inflight[k])),
                                     ![k].terms = searchTerms(inflight[k].selector)])

\* variant: matches and allRulesBySelectorText are shared by the invocations
\* that are reading
ReadStep_shared(flight, k) ==
    LET scan == ScanFiles(<<Head(flight[k].remaining)>>, flight[k].terms,
                          flight[k].matches, flight[k].index)
    IN  [j \in DOMAIN flight |->
            IF j = k
            THEN [flight[j] EXCEPT !.remaining = Tail(@), !.matches = scan.matches,
                                   !.index = scan.index,
                                   !.reads = Append(@, clock + 1)]
            ELSE IF flight[j].op = "css_phase2_cascade" /\ flight[j].pc = "read"
                 THEN [flight[j] EXCEPT !.matches = scan.matches, !.index = scan.index]
                 ELSE flight[j]]

\* fs.readFile resolves for the next file of a cascade invocation: one pass of
\* the loop over cssFiles, on the locals of the invocation
ReadStep(flight, k) ==
    LET scan == ScanFiles(<<Head(flight[k].remaining)>>, flight[k].terms,
                          flight[k].matches, flight[k].index)
    IN  [flight EXCEPT ![k].remaining = Tail(@), ![k].matches = scan.matches,
                       ![k].index = scan.index, ![k].reads = Append(@, clock + 1)]

\* the value a cascade invocation assigns to findings.cascade from its locals
CascadeOfLocals(f) ==
    [cssFilesSearched |-> f.found,
     matchesFound |-> Len(f.matches),
     matches |-> f.matches,
     duplicateSelectors |-> SelectSeq(f.index, LAMBDA d : d.count > 1),
     searchTerms |-> f.terms,
     rules |-> Flatten([i \in 1..Len(f.matches) |-> f.matches[i].rules])]

\* a read of a cascade invocation resolves and the loop awaits the next one
ReadNext ==
    \E k \in Invocations :
        /\ inflight[k].op = "css_phase2_cascade"
        /\ inflight[k].pc = "read"
        /\ Len(inflight[k].remaining) > 1
        /\ Suspends(ReadStep(inflight, k))

\* the last read of a cascade invocation resolves: the invocation assigns
\* findings.cascade and returns without being suspended again
ReadLast ==
    \E k \in Invocations :
        /\ inflight[k].op = "css_phase2_cascade"
        /\ inflight[k].pc = "read"
        /\ Len(inflight[k].remaining) = 1
        /\ \E after \in {ReadStep(inflight, k)} :
           \E cascade \in {CascadeOfLocals(after[k])} :
               Returns(after, k, WriteSlot(investigations, "inv-1", "cascade", cascade),
                       [kind |-> "Complete", phase |-> "2",
                        issues |-> Len(cascade.duplicateSelectors)])

\* Promise.all over the reads of a structure invocation resolves: the
\* invocation analyses the texts, assigns findings.structure and returns
ReadAll ==
    \E k \in Invocations :
        /\ inflight[k].op = "css_phase1_structure"
        /\ inflight[k].pc = "read"
        /\ \E structure \in {StructureFindings(inflight[k].remaining)} :
               Returns([inflight EXCEPT ![k].reads = Append(@, clock + 1)], k,
                       WriteSlot(investigations, "inv-1", "structure", structure),
                       [kind |-> "Complete", phase |-> "1",
                        issues |-> Len(structure["muiIssues"])])

\* a read rejects: the catch block of the invocation returns the error
ReadRejects ==
    \E k \in Invocations :
        /\ inflight[k].pc = "read"
        /\ Returns(inflight, k, investigations, Outcome("Error"))

NextInterleave ==
    \/ BeginCascade
    \/ BeginStructure
    \/ GlobEmpty
    \/ GlobFound
    \/ ReadNext
    \/ ReadLast
    \/ ReadAll
    \/ ReadRejects

SpecInterleave == InitInterleave /\ [][NextInterleave]_vars

\* ======================================================= RollbackManager ==

\* fs.readFileSync(path, 'utf-8'): the code points of a file's bytes. A byte
\* below 0x80 is itself; a lead byte 0xC2..0xDF with a continuation byte is a
\* two-byte form; any other byte is malformed and becomes U+FFFD. (The files
\* here hold no three- or four-byte forms.)
ReplacementCharacter == 65533

RECURSIVE Utf8Decode(_)
Utf8Decode(bytes) ==
    IF bytes = <<>> THEN <<>>
    ELSE LET b == Head(bytes)
         IN  IF b < 128 THEN <<b>> \o Utf8Decode(Tail(bytes))
             ELSE IF /\ b >= 194 /\ b <= 223 /\ Len(bytes) > 1
                     /\ bytes[2] >= 128 /\ bytes[2] <= 191
                  THEN <<(b - 192) * 64 + (bytes[2] - 128)>>
                       \o Utf8Decode(Tail(Tail(bytes)))
                  ELSE <<ReplacementCharacter>> \o Utf8Decode(Tail(bytes))

\* fs.writeFileSync(path, content, 'utf-8'): the bytes of a string
RECURSIVE Utf8Encode(_)
Utf8Encode(content) ==
    IF content = <<>> THEN <<>>
    ELSE LET c == Head(content)
         IN  (IF c < 128 THEN <<c>>
              ELSE IF c < 2048 THEN <<192 + (c \div 64), 128 + (c % 64)>>
              ELSE <<224 + (c \div 4096), 128 + ((c \div 64) % 64), 128 + (c % 64)>>)
             \o Utf8Encode(Tail(content))

\* fs.existsSync
existsSync(disk, path) == path \in DOMAIN disk

\* fs.unlinkSync
unlinkSync(disk, path) == [q \in DOMAIN disk \ {path} |-> disk[q]]

\* fs.writeFileSync
writeFileSync(disk, path, content) ==
    [q \in DOMAIN disk \cup {path} |-> IF q = path THEN Utf8Encode(content) ELSE disk[q]]

\* the snapshots of createRollbackPoint, in the order of filePaths
Snapshots(disk, filePaths) ==
    [i \in 1..Len(filePaths) |->
        [path |-> filePaths[i],
         content |-> IF existsSync(disk, filePaths[i])
                     THEN Utf8Decode(disk[filePaths[i]]) ELSE <<>>,
         exists |-> existsSync(disk, filePaths[i])]]

\* rollbackPoints.get(id): the positions of the point in the Map (at most one)
PointsWithId(points, id) == {i \in 1..Len(points) : points[i].id = id}

\* rollbackPoints.set(id, point) on a Map in insertion order
PointsSet(points, point) ==
    IF PointsWithId(points, point.id) = {} THEN Append(points, point)
    ELSE [i \in 1..Len(points) |-> IF points[i].id = point.id THEN point ELSE points[i]]

\* createRollbackPoint: the Map it leaves and the id it returns
createRollbackPoint(disk, points, filePaths, description, now, suffix) ==
    LET id == [now |-> now, suffix |-> suffix]
        rollbackPoint == [id |-> id, timestamp |-> now, description |-> description,
                          files |-> Snapshots(disk, filePaths)]
    IN  [points |-> PointsSet(points, rollbackPoint), id |-> id]

\* the loop of rollback over the snapshots: the file system it leaves, the
\* count and the errors; failing holds the paths whose write or unlink throws
RECURSIVE RestoreSnapshots(_, _, _, _, _)
RestoreSnapshots(disk, snapshots, failing, filesRestored, errors) ==
    IF snapshots = <<>>
    THEN [disk |-> disk, filesRestored |-> filesRestored, errors |-> errors]
    ELSE LET snapshot == Head(snapshots)
             failed == [kind |-> "FailedToRestore", of |-> snapshot.path]
         IN  IF snapshot.exists
             THEN IF snapshot.path \in failing
                  THEN RestoreSnapshots(disk, Tail(snapshots), failing, filesRestored,
                                        Append(errors, failed))
                  ELSE RestoreSnapshots(writeFileSync(disk, snapshot.path, snapshot.content),
                                        Tail(snapshots), failing, filesRestored + 1, errors)
             ELSE IF existsSync(disk, snapshot.path)
                  THEN IF snapshot.path \in failing
                       THEN RestoreSnapshots(disk, Tail(snapshots), failing, filesRestored,
                                             Append(errors, failed))
                       ELSE RestoreSnapshots(unlinkSync(disk, snapshot.path),
                                             Tail(snapshots), failing, filesRestored + 1,
                                             errors)
                  ELSE RestoreSnapshots(disk, Tail(snapshots), failing, filesRestored,
                                        errors)

\* variant: an unknown id is a rollback with nothing to restore
rollback_lenient(disk, points, rollbackId, failing) ==
    IF PointsWithId(points, rollbackId) = {}
    THEN [disk |-> disk,
          out |-> [success |-> TRUE, filesRestored |-> 0, errors |-> <<>>]]
    ELSE LET rollbackPoint == points[CHOOSE i \in PointsWithId(points, rollbackId) : TRUE]
             r == RestoreSnapshots(disk, rollbackPoint.files, failing, 0, <<>>)
         IN  [disk |-> r.disk,
              out |-> [success |-> r.errors = <<>>, filesRestored |-> r.filesRestored,
                       errors |-> r.errors]]

\* rollback: the file system it leaves and the result it returns
rollback(disk, points, rollbackId, failing) ==
    IF PointsWithId(points, rollbackId) = {}
    THEN [disk |-> disk,
          out |-> [success |-> FALSE, filesRestored |-> 0,
                   errors |-> <<[kind |-> "NotFound", of |-> rollbackId]>>]]
    ELSE LET rollbackPoint == points[CHOOSE i \in PointsWithId(points, rollbackId) : TRUE]
             r == RestoreSnapshots(disk, rollbackPoint.files, failing, 0, <<>>)
         IN  [disk |-> r.disk,
              out |-> [success |-> r.errors = <<>>, filesRestored |-> r.filesRestored,
                       errors |-> r.errors]]

\* variant: oldest first
RECURSIVE InsertByTimestamp_oldestFirst(_, _)
InsertByTimestamp_oldestFirst(sorted, p) ==
    IF sorted = <<>> THEN <<p>>
    ELSE IF Head(sorted).timestamp <= p.timestamp
         THEN <<Head(sorted)>> \o InsertByTimestamp_oldestFirst(Tail(sorted), p)
         ELSE <<p>> \o sorted

\* stable insertion of p into a list sorted by timestamp, newest first
RECURSIVE InsertByTimestamp(_, _)
InsertByTimestamp(sorted, p) ==
    IF sorted = <<>> THEN <<p>>
    ELSE IF Head(sorted).timestamp >= p.timestamp
         THEN <<Head(sorted)>> \o InsertByTimestamp(Tail(sorted), p)
         ELSE <<p>> \o sorted

\* getRollbackPoints: the points of the Map sorted by timestamp, newest first
RECURSIVE getRollbackPoints(_)
getRollbackPoints(points) ==
    IF points = <<>> THEN <<>>
    ELSE InsertByTimestamp(getRollbackPoints(SubSeq(points, 1, Len(points) - 1)),
                           points[Len(points)])

\* cleanup: the Map it leaves
cleanup(points, keepLast) ==
    LET sorted == getRollbackPoints(points)
    IN  IF Len(sorted) <= keepLast THEN points
        ELSE LET deleted == {sorted[i].id : i \in (keepLast + 1)..Len(sorted)}
             IN  SelectSeq(points, LAMBDA p : p.id \notin deleted)

\* ------------------------------------------- snapshot, change, roll back --

Paths == {"a.css", "b.css"}

\* the bytes of the files: "a", "é" in UTF-8, "é" in Latin-1
FileContents == {<<97>>, <<195, 169>>, <<233>>}

\* the filePaths arguments
PathLists == {<<"a.css">>, <<"a.css", "b.css">>}

\* the sets of paths whose write or unlink throws during one rollback
WriteFailures == {{}, {"a.css"}}

FileSystems ==
    UNION {[present -> FileContents] : present \in SUBSET Paths}

\* the most rollback points created, and the most rollbacks, in one session
MaxSnapshots == 1

MaxRollbacks == 2

\* an id that createRollbackPoint never returned
UnknownId == [now |-> 0, suffix |-> 0]

Served(op, args, out) ==
    /\ ret' = [op |-> op, investigationId |-> NoId, args |-> args, out |-> out]
    /\ calls' = calls + 1

InitRollback ==
    /\ investigations = EmptyObject
    /\ ret = [op |-> "none", investigationId |-> NoId, args |-> NoArgs,
              out |-> Outcome("none")]
    /\ calls = 0
    /\ inflight = <<>>
    /\ fileSystem \in FileSystems
    /\ rollbackPoints = <<>>
    /\ fixHistory = <<>>
    /\ logs = <<>>
    /\ clock = 1
    /\ taken = <<>>

\* createRollbackPoint(filePaths, description) is called and returns
TakeSnapshot(filePaths, limit) ==
    /\ Len(rollbackPoints) < limit
    /\ \E r \in {createRollbackPoint(fileSystem, rollbackPoints, filePaths, "fix",
                                     clock, calls + 1)} :
          /\ rollbackPoints' = r.points
          /\ taken' = [i \in DOMAIN taken \cup {r.id} |->
                          IF i = r.id THEN fileSystem ELSE taken[i]]
          /\ Served("createRollbackPoint", [filePaths |-> filePaths], r.id)
    /\ UNCHANGED <<investigations, inflight, fileSystem, fixHistory, logs, clock>>

CreateRollbackPoint ==
    \E filePaths \in PathLists : TakeSnapshot(filePaths, MaxSnapshots)

\* a file is created or edited by something else
EditFile ==
    \E path \in Paths, bytes \in FileContents :
        /\ rollbackPoints # <<>>
        /\ fileSystem' = [q \in DOMAIN fileSystem \cup {path} |->
                             IF q = path THEN bytes ELSE fileSystem[q]]
        /\ UNCHANGED <<investigations, ret, calls, inflight, rollbackPoints, fixHistory,
                       logs, clock, taken>>

\* a file is deleted by something else
DeleteFile ==
    \E path \in DOMAIN fileSystem :
        /\ rollbackPoints # <<>>
        /\ fileSystem' = unlinkSync(fileSystem, path)
        /\ UNCHANGED <<investigations, ret, calls, inflight, rollbackPoints, fixHistory,
                       logs, clock, taken>>

\* rollback(rollbackId) is called and returns
RollbackTo(rollbackId, failing) ==
    /\ \E r \in {rollback(fileSystem, rollbackPoints, rollbackId, failing)} :
          /\ fileSystem' = r.disk
          /\ Served("rollback", [rollbackId |-> rollbackId, failing |-> failing], r.out)
    /\ UNCHANGED <<investigations, inflight, rollbackPoints, fixHistory, logs, clock,
                   taken>>

Rollback ==
    \E rollbackId \in DOMAIN taken \cup {UnknownId}, failing \in WriteFailures :
        /\ calls < MaxSnapshots + MaxRollbacks
        /\ RollbackTo(rollbackId, failing)

NextRollback ==
    \/ CreateRollbackPoint
    \/ EditFile
    \/ DeleteFile
    \/ Rollback

SpecRollback == InitRollback /\ [][NextRollback]_vars

\* --------------------------------------------- rollback points over time --

\* the most rollback points created, the latest time, the most calls
MaxPoints == 3

MaxClock == 3

MaxManagerCalls == 5

\* the keepLast arguments
KeepLasts == 0..MaxPoints

InitCleanup ==
    /\ investigations = EmptyObject
    /\ ret = [op |-> "none", investigationId |-> NoId, args |-> NoArgs,
              out |-> Outcome("none")]
    /\ calls = 0
    /\ inflight = <<>>
    /\ fileSystem \in {d \in FileSystems : "b.css" \notin DOMAIN d}
    /\ rollbackPoints = <<>>
    /\ fixHistory = <<>>
    /\ logs = <<>>
    /\ clock = 1
    /\ taken = <<>>

CreatePoint ==
    /\ calls < MaxManagerCalls
    /\ TakeSnapshot(<<"a.css">>, MaxPoints)

\* time passes
Tick ==
    /\ clock < MaxClock
    /\ clock' = clock + 1
    /\ UNCHANGED <<investigations, ret, calls, inflight, fileSystem, rollbackPoints,
                   fixHistory, logs, taken>>

\* cleanup(keepLast) is called and returns
Cleanup ==
    \E keepLast \in KeepLasts :
        /\ calls < MaxManagerCalls
        /\ rollbackPoints' = cleanup(rollbackPoints, keepLast)
        /\ Served("cleanup", [keepLast |-> keepLast], Outcome("void"))
        /\ UNCHANGED <<investigations, inflight, fileSystem, fixHistory, logs, clock,
                       taken>>

\* rollback is called with an id that was returned once, or never
RollbackAny ==
    \E rollbackId \in DOMAIN taken \cup {UnknownId} :
        /\ calls < MaxManagerCalls
        /\ RollbackTo(rollbackId, {})

NextCleanup ==
    \/ CreatePoint
    \/ Tick
    \/ Cleanup
    \/ RollbackAny

SpecCleanup == InitCleanup /\ [][NextCleanup]_vars

\* ========================================================== FixValidator ==

\* the window of the baseline and of the comparison, and the cap of
\* readLogs in getErrors
ErrorWindow == 60000

ReadLimit == 1000

LogEntry(timestamp, level, message) ==
    [timestamp |-> timestamp, level |-> level, message |-> message]

\* readLogs(maxEntries): the entries of the log files, newest first
RECURSIVE SortNewestFirst(_)
SortNewestFirst(entries) ==
    IF entries = <<>> THEN <<>>
    ELSE InsertByTimestamp(SortNewestFirst(SubSeq(entries, 1, Len(entries) - 1)),
                           entries[Len(entries)])

readLogs(entries, maxEntries) ==
    SubSeq(SortNewestFirst(entries), 1, Min(maxEntries, Len(entries)))

\* getErrors(since) on log files that hold entries
getErrors(entries, since) ==
    SelectSeq(readLogs(entries, ReadLimit),
              LAMBDA log : log.level = "error" /\ log.timestamp >= since)

\* compareErrors(beforeTime, afterTime); the log files hold atFirstRead when
\* the errors since beforeTime are read and atSecondRead when the errors
\* since afterTime are read
compareErrors(atFirstRead, atSecondRead, beforeTime, afterTime) ==
    LET beforeErrors == getErrors(atFirstRead, beforeTime)
        afterErrors  == getErrors(atSecondRead, afterTime)
        newErrors == SelectSeq(afterErrors, LAMBDA afterLog :
            ~\E i \in 1..Len(beforeErrors) : beforeErrors[i].message = afterLog.message)
    IN  [newErrors |-> newErrors,
         resolvedErrors |-> IF Len(beforeErrors) > Len(afterErrors)
                            THEN Len(beforeErrors) - Len(afterErrors) ELSE 0]

\* waitForStabilization returns a second after the first healthy poll, or
\* when maxWaitMs have passed
StabilizationTime(healthy) == IF healthy THEN 1000 ELSE 5000

\* the result of the catch block
ValidationError ==
    [success |-> FALSE, phase |-> "error", details |-> EmptyObject,
     errors |-> <<"Error">>]

\* the result of a validation that ran to its end
ValidationComplete(env, errorComparison, allApiPassed) ==
    LET noNewErrors == Len(errorComparison.newErrors) = 0
        failedEndpoints == SelectSeq(env.endpoints, LAMBDA ok : ~ok)
    IN  [success |-> /\ env.test.passed /\ env.running /\ env.responding
                     /\ allApiPassed /\ noNewErrors,
         phase |-> "complete",
         details |-> [testsPassed |-> env.test.passed,
                      serverRunning |-> env.running,
                      apiResponding |-> env.responding,
                      noNewErrors |-> noNewErrors,
                      errorCount |-> Len(errorComparison.newErrors),
                      logs |-> errorComparison.newErrors],
         errors |-> env.test.errors
                    \o [i \in 1..Len(errorComparison.newErrors) |->
                           errorComparison.newErrors[i].message]
                    \o [i \in 1..Len(failedEndpoints) |-> "Endpoint failed"]]

\* variant: the endpoints are tested but their results are not consulted
validateFix_serverOnly(history, fix, now, entries, env) ==
    IF env.baselineThrows THEN [history |-> history, out |-> ValidationError]
    ELSE IF env.compareThrows
    THEN [history |-> Append(history, fix), out |-> ValidationError]
    ELSE LET checked == now + StabilizationTime(env.running /\ env.responding)
             errorComparison == compareErrors(entries \o env.written,
                                              entries \o env.written \o env.late,
                                              checked - ErrorWindow, checked)
             validationResult == ValidationComplete(env, errorComparison, TRUE)
         IN  [history |-> Append(history, With(fix, "validation", validationResult)),
              out |-> validationResult]

\* validateFix(fix, affectedEndpoints), called at now with the log files
\* holding entries; env is what the collaborators do during the call: whether
\* a read of the log files throws, the entries written to the logs while the
\* call waits and between the two reads of the comparison, the test result,
\* the server health and the result of each endpoint tested. The history it
\* leaves and the result it returns.
validateFix(history, fix, now, entries, env) ==
    IF env.baselineThrows THEN [history |-> history, out |-> ValidationError]
    ELSE IF env.compareThrows
    THEN [history |-> Append(history, fix), out |-> ValidationError]
    ELSE LET checked == now + StabilizationTime(env.running /\ env.responding)
             errorComparison == compareErrors(entries \o env.written,
                                              entries \o env.written \o env.late,
                                              checked - ErrorWindow, checked)
             allApiPassed == \A i \in 1..Len(env.endpoints) : env.endpoints[i]
             validationResult == ValidationComplete(env, errorComparison, allApiPassed)
         IN  [history |-> Append(history, With(fix, "validation", validationResult)),
              out |-> validationResult]

\* getLastSuccessfulFix
RECURSIVE getLastSuccessfulFix(_)
getLastSuccessfulFix(history) ==
    IF history = <<>> THEN <<>>
    ELSE LET last == history[Len(history)]
         IN  IF "validation" \in DOMAIN last /\ last["validation"].success
             THEN <<last>>
             ELSE getLastSuccessfulFix(SubSeq(history, 1, Len(history) - 1))

\* ------------------------------------------------------ validating fixes --

\* the time of the first call
StartTime == 100000

\* the most validations in one session
MaxValidations == 1

\* the log files before the first call
InitialLogs ==
    {<<>>,
     <<LogEntry(StartTime - 30000, "error", "old")>>,
     <<LogEntry(StartTime - 90000, "error", "ancient"),
       LogEntry(StartTime - 30000, "error", "old"),
       LogEntry(StartTime - 20000, "info", "started")>>}

\* the entries written while validateFix waits after the fix, stamped at
WrittenEntries(at) ==
    {<<>>,
     <<LogEntry(at, "error", "fresh")>>,
     <<LogEntry(at, "error", "old")>>,
     <<LogEntry(at, "info", "fresh"), LogEntry(at, "error", "ancient")>>}

\* the entries written between the two reads of compareErrors
LateEntries(at) == {<<>>, <<LogEntry(at, "error", "late")>>}

TestResults ==
    {[passed |-> TRUE, errors |-> <<>>], [passed |-> FALSE, errors |-> <<"failed test">>]}

\* the results of the endpoints tested; none when no endpoint is given
EndpointResults == {<<>>, <<TRUE>>, <<TRUE, FALSE>>}

\* what the collaborators do during one call made at now; a call whose read
\* of the log files throws consults nothing after it
Environments(now) ==
    LET quiet == [baselineThrows |-> FALSE, compareThrows |-> FALSE, written |-> <<>>,
                  late |-> <<>>, test |-> [passed |-> TRUE, errors |-> <<>>],
                  running |-> TRUE, responding |-> TRUE, endpoints |-> <<>>]
    IN  {[quiet EXCEPT !.baselineThrows = TRUE]}
        \cup {[quiet EXCEPT !.compareThrows = TRUE, !.written = w] :
                 w \in WrittenEntries(now + 500)}
        \cup UNION {{[quiet EXCEPT !.written = w, !.late = l, !.test = t,
                                   !.running = h[1], !.responding = h[2],
                                   !.endpoints = e] :
                        w \in WrittenEntries(now + 500),
                        l \in LateEntries(now + StabilizationTime(h[1] /\ h[2])),
                        t \in TestResults, e \in EndpointResults} :
                     h \in {<<TRUE, TRUE>>, <<TRUE, FALSE>>, <<FALSE, FALSE>>}}

InitValidator ==
    /\ investigations = EmptyObject
    /\ ret = [op |-> "none", investigationId |-> NoId, args |-> NoArgs,
              out |-> Outcome("none")]
    /\ calls = 0
    /\ inflight = <<>>
    /\ fileSystem = <<>>
    /\ rollbackPoints = <<>>
    /\ fixHistory = <<>>
    /\ logs \in InitialLogs
    /\ clock = StartTime
    /\ taken = <<>>

\* validateFix is called with a new fix and returns
ValidateFix ==
    /\ calls < MaxValidations
    /\ \E env \in Environments(clock) :
       \E fix \in {[id |-> calls + 1, timestamp |-> clock]} :
       \E r \in {validateFix(fixHistory, fix, clock, logs, env)} :
        /\ fixHistory' = r.history
        /\ logs' = logs \o env.written \o env.late
        /\ clock' = clock + StabilizationTime(env.running /\ env.responding)
        /\ ret' = [op |-> "validateFix", investigationId |-> NoId,
                   args |-> [fix |-> fix, env |-> env, entries |-> logs], out |-> r.out]
        /\ calls' = calls + 1
        /\ UNCHANGED <<investigations, inflight, fileSystem, rollbackPoints, taken>>

NextValidator == ValidateFix

SpecValidator == InitValidator /\ [][NextValidator]_vars

\* ================================================================ claims ==

Stored == DOMAIN investigations

FindingsOf(id) == investigations[id].findings

FindingsAfter(id) == investigations'[id].findings

\* the slot of id is absent before and after the step, or has the same value
SlotUnchanged(id, slot) ==
    /\ (slot \in DOMAIN FindingsAfter(id)) = (slot \in DOMAIN FindingsOf(id))
    /\ slot \in DOMAIN FindingsOf(id) => FindingsAfter(id)[slot] = FindingsOf(id)[slot]

\* the step is a call of op
Called(op) == ret'.op = op

\* the step is a call that reports success
Completed(op) == ret'.op = op /\ ret'.out.kind = "Complete"

\* the gated phase operations: the slot each needs and the failure it reports
GatedPhases ==
    [op \in {"css_phase3_conflicts", "css_phase4_multilevel", "css_phase5_solution"} |->
        IF op = "css_phase3_conflicts"
        THEN [needs |-> "cascade", failure |-> "MustCompletePhase2"]
        ELSE IF op = "css_phase4_multilevel"
        THEN [needs |-> "conflicts", failure |-> "MustCompletePhase3"]
        ELSE [needs |-> "multiLevel", failure |-> "MustCompletePhase4"]]

C2_SkipPath ==
    [][(/\ Called("css_phase4_multilevel")
        /\ ret'.investigationId \in Stored
        /\ "cascade" \notin DOMAIN FindingsOf(ret'.investigationId)
        /\ "conflicts" \notin DOMAIN FindingsOf(ret'.investigationId))
       => /\ "multiLevel" \in DOMAIN FindingsAfter(ret'.investigationId)
          /\ FindingsAfter(ret'.investigationId)["multiLevel"].overriddenProperties = <<>>]_vars

\* C2, over all sessions: multi-level findings are never present without
\* conflict findings, nor conflict findings without cascade findings, so no
\* sequence of calls reaches the solution phase with phases 2 and 3 skipped.
C2_NeverSkipped ==
    \A id \in Stored :
        /\ "multiLevel" \in DOMAIN FindingsOf(id) => "conflicts" \in DOMAIN FindingsOf(id)
        /\ "conflicts" \in DOMAIN FindingsOf(id) => "cascade" \in DOMAIN FindingsOf(id)

\* the operations that take a required investigation id
IdPhases ==
    {"css_phase1_structure", "css_phase2_cascade", "css_phase3_conflicts",
     "css_phase4_multilevel", "css_phase4b_browser", "css_phase5_solution"}

\* C3: every phase operation called with an id the store does not hold
\* reports InvestigationNotFound (and so never the outcome it reports for a
\* missing precondition slot).
C3_NotFoundDistinct ==
    [][(ret'.op \in IdPhases /\ ret'.investigationId \notin Stored)
       => ret'.out.kind = "InvestigationNotFound"]_vars

\* C4: a failed browser inspection changes nothing in the store; and the
\* solution phase on an investigation with multiLevel findings and no
\* browser findings succeeds with a report that says live browser data was
\* not used, both when it is evaluated right after a failed inspection and
\* whenever it is called.
C4_BrowserFailureNonFatal ==
    [][/\ (Called("css_phase4b_browser") /\ ret'.out.kind \in BrowserFailures)
          => /\ investigations' = investigations
             /\ \A issue \in Issues :
                  LET id == ret'.investigationId
                      r == css_phase5_solution(investigations', id, issue)
                  IN  (/\ "multiLevel" \in DOMAIN FindingsAfter(id)
                       /\ "browser" \notin DOMAIN FindingsAfter(id))
                      => r.out.kind = "Complete" /\ ~r.out.report.liveBrowserData
       /\ (/\ Called("css_phase5_solution")
           /\ ret'.investigationId \in Stored
           /\ "multiLevel" \in DOMAIN FindingsOf(ret'.investigationId)
           /\ "browser" \notin DOMAIN FindingsOf(ret'.investigationId))
          => /\ ret'.out.kind = "Complete"
             /\ ~ret'.out.report.liveBrowserData
             /\ "recommendation" \in DOMAIN FindingsAfter(ret'.investigationId)["solution"]]_vars

\* a browser inspection has just failed on an investigation that is ready
\* for the solution phase and has no browser findings
C4_Witness ==
    /\ ret.op = "css_phase4b_browser"
    /\ ret.out.kind \in BrowserFailures
    /\ ret.investigationId \in Stored
    /\ "multiLevel" \in DOMAIN FindingsOf(ret.investigationId)
    /\ "browser" \notin DOMAIN FindingsOf(ret.investigationId)

\* the operations that write each slot, as the claim has it
ClaimedWriters ==
    [slot \in Slots |->
        CASE slot = "structure" -> {"css_phase1_structure"}
          [] slot = "cascade" -> {"css_phase2_cascade"}
          [] slot = "conflicts" -> {"css_phase3_conflicts"}
          [] slot = "multiLevel" -> {"css_phase4_multilevel"}
          [] slot = "browser" -> {"css_phase4b_browser"}
          [] OTHER -> {"css_phase5_solution", "css_compare_screenshots"}]

\* the operations that write each slot
Writers ==
    [slot \in Slots |->
        IF slot = "structure"
        THEN {"css_phase1_structure", "css_analyze_screenshot", "css_batch_apply"}
        ELSE ClaimedWriters[slot]]

\* C5 as stated: a slot changes only in a call of its own phase operation,
\* and findings.solution is the only slot with two writers.
C5_OwnSlotOnly ==
    [][\A id \in Stored, slot \in Slots :
         SlotUnchanged(id, slot) \/ ret'.op \in ClaimedWriters[slot]]_vars

\* C5 as amended: a slot changes only in a call of an operation that writes
\* it, where findings.structure is written by the structure phase, the
\* screenshot analysis and the batch scope; the latter two add one field and
\* keep every field the slot already has.
C5_WritersOnly ==
    [][/\ \A id \in Stored, slot \in Slots :
            SlotUnchanged(id, slot) \/ ret'.op \in Writers[slot]
       /\ \A id \in Stored :
            (ret'.op \in {"css_analyze_screenshot", "css_batch_apply"}
             /\ "structure" \in DOMAIN FindingsOf(id))
            => \A k \in DOMAIN FindingsOf(id)["structure"] :
                 /\ k \in DOMAIN FindingsAfter(id)["structure"]
                 /\ k \notin {"screenshotAnalysis", "batchScope"}
                    => FindingsAfter(id)["structure"][k] = FindingsOf(id)["structure"][k]]_vars

\* the screenshot analysis has added its field to structure findings that
\* the structure phase wrote
C5_Witness ==
    /\ ret.op = "css_analyze_screenshot"
    /\ ret.out.kind = "Complete"
    /\ ret.investigationId \in Stored
    /\ {"filesFound", "screenshotAnalysis"}
           \subseteq DOMAIN SlotOrEmpty(FindingsOf(ret.investigationId), "structure")

\* C6 as stated: a slot that has been written keeps its value in every step.
C6_WrittenOnce ==
    [][\A id \in Stored : \A slot \in DOMAIN FindingsOf(id) :
         /\ slot \in DOMAIN FindingsAfter(id)
         /\ FindingsAfter(id)[slot] = FindingsOf(id)[slot]]_vars

\* C6 as amended: a slot that has been written is never removed, and its
\* value changes only in a successful call, for the same investigation, of
\* an operation that writes that slot.
C6_ChangedByRerunOnly ==
    [][\A id \in Stored : \A slot \in DOMAIN FindingsOf(id) :
         /\ slot \in DOMAIN FindingsAfter(id)
         /\ FindingsAfter(id)[slot] # FindingsOf(id)[slot]
            => /\ ret'.out.kind = "Complete"
               /\ ret'.investigationId = id
               /\ ret'.op \in Writers[slot]]_vars

\* the cascade phase has run again on an investigation and replaced the
\* cascade findings that its conflict findings were computed from
C6_Witness ==
    /\ ret.op = "css_phase2_cascade"
    /\ ret.out.kind = "Complete"
    /\ ret.investigationId \in Stored
    /\ {"cascade", "conflicts"} \subseteq DOMAIN FindingsOf(ret.investigationId)
    /\ FindingsOf(ret.investigationId)["conflicts"]
           # ConflictFindings(FindingsOf(ret.investigationId)["cascade"])

\* the slot each phase operation writes
OwnSlot ==
    [op \in IdPhases |->
        CASE op = "css_phase1_structure" -> "structure"
          [] op = "css_phase2_cascade" -> "cascade"
          [] op = "css_phase3_conflicts" -> "conflicts"
          [] op = "css_phase4_multilevel" -> "multiLevel"
          [] op = "css_phase4b_browser" -> "browser"
          [] OTHER -> "solution"]

\* the handler registered under the tool name, applied to a store and to the
\* arguments of a call as ret records them
Apply(op, store, investigationId, args) ==
    CASE op = "css_investigate_start" -> css_investigate_start(store, investigationId)
      [] op = "css_phase1_structure" ->
            css_phase1_structure(store, investigationId, args.pattern, args.unreadable)
      [] op = "css_phase2_cascade" ->
            css_phase2_cascade(store, investigationId, args.pattern, args.selector,
                               args.unreadable)
      [] op = "css_phase3_conflicts" -> css_phase3_conflicts(store, investigationId)
      [] op = "css_phase4_multilevel" -> css_phase4_multilevel(store, investigationId)
      [] op = "css_phase4b_browser" ->
            css_phase4b_browser(store, investigationId, args.selector, args.autoLaunch,
                                args.browser)
      [] op = "css_phase5_solution" ->
            css_phase5_solution(store, investigationId, args.issue)
      [] op = "css_compare_screenshots" ->
            css_compare_screenshots(store, investigationId, args.comparison)
      [] op = "css_analyze_screenshot" ->
            css_analyze_screenshot(store, investigationId, args.shot, args.expected)
      [] op = "css_batch_apply" ->
            css_batch_apply(store, investigationId, args.pattern, args.unreadable)

Without(obj, keys) == [k \in DOMAIN obj \ keys |-> obj[k]]

\* the store with everything removed that earlier runs of op wrote for id:
\* the slot of the phase, or for the solution phase the two fields it sets
Forget(store, id, op) ==
    LET findings == store[id].findings
    IN  IF op = "css_phase5_solution"
        THEN IF "solution" \in DOMAIN findings
             THEN WriteSlot(store, id, "solution",
                            Without(findings["solution"], {"recommendation", "fixedFiles"}))
             ELSE store
        ELSE [store EXCEPT ![id].findings = Without(@, {OwnSlot[op]})]

\* C7: a successful phase call leaves in its slot, and returns, what the same
\* call leaves and returns on the investigation with the results of the
\* earlier runs of that phase removed; and a conflict phase that succeeds
\* right after a successful conflict phase on the same investigation leaves
\* findings.conflicts as it was.
C7_RerunRecomputes ==
    [][\A op \in IdPhases :
         LET id == ret'.investigationId
         IN  (Completed(op) /\ id \in Stored)
             => /\ LET r == Apply(op, Forget(investigations, id, op), id, ret'.args)
                    IN  /\ r.out = ret'.out
                        /\ r.store[id].findings[OwnSlot[op]]
                               = FindingsAfter(id)[OwnSlot[op]]
                /\ (/\ op = "css_phase3_conflicts"
                    /\ ret.op = op
                    /\ ret.investigationId = id
                    /\ ret.out.kind = "Complete")
                   => FindingsAfter(id)["conflicts"] = FindingsOf(id)["conflicts"]]_vars

\* the conflict phase has run again: the multi-level findings were computed
\* from the conflicts of an earlier run, and the conflicts now stored are the
\* ones of the current cascade findings
C7_Witness ==
    /\ ret.op = "css_phase3_conflicts"
    /\ ret.out.kind = "Complete"
    /\ ret.investigationId \in Stored
    /\ "multiLevel" \in DOMAIN FindingsOf(ret.investigationId)
    /\ FindingsOf(ret.investigationId)["multiLevel"].overriddenProperties
           # FindingsOf(ret.investigationId)["conflicts"].duplicateProperties
    /\ FindingsOf(ret.investigationId)["conflicts"]
           = ConflictFindings(FindingsOf(ret.investigationId)["cascade"])

\* the phase number each phase operation completes
PhaseNumber ==
    [op \in IdPhases |->
        CASE op = "css_phase1_structure" -> 1
          [] op = "css_phase2_cascade" -> 2
          [] op = "css_phase3_conflicts" -> 3
          [] op = "css_phase5_solution" -> 5
          [] OTHER -> 4]

\* C8: currentPhase stays in 1..5 and never decreases, and a successful
\* phase completion leaves currentPhase above its value at creation and the
\* phase number in completedPhases.
C8_ProgressTracking ==
    [][\A id \in Stored :
         /\ investigations'[id].currentPhase \in 1..5
         /\ investigations'[id].currentPhase >= investigations[id].currentPhase
         /\ \A op \in IdPhases :
              (Completed(op) /\ ret'.investigationId = id)
              => /\ investigations'[id].currentPhase > NewInvestigation(id).currentPhase
                 /\ PhaseNumber[op] \in Range(investigations'[id].completedPhases)]_vars

\* C9: no step removes an investigation from the store or a slot from the
\* findings of an investigation.
C9_NothingRemoved ==
    [][/\ Stored \subseteq DOMAIN investigations'
       /\ \A id \in Stored : DOMAIN FindingsOf(id) \subseteq DOMAIN FindingsAfter(id)]_vars

\* the solution phase has completed a protocol run in which the structure,
\* cascade, conflict and multi-level findings were written and are all kept
C9_Witness ==
    /\ ret.op = "css_phase5_solution"
    /\ ret.out.kind = "Complete"
    /\ ret.investigationId \in Stored
    /\ {"structure", "cascade", "conflicts", "multiLevel", "solution"}
           \subseteq DOMAIN FindingsOf(ret.investigationId)

\* the store restricted to the investigation id
Only(store, id) == [k \in DOMAIN store \cap {id} |-> store[k]]

\* C10: a call with investigation id A leaves every other stored
\* investigation as it was, and when the store holds other investigations,
\* what the call returns and what it leaves of A are what the same call
\* returns and leaves on a store that holds A alone.
C10_Independent ==
    [][LET id == ret'.investigationId
       IN  /\ \A b \in Stored \ {id} : investigations'[b] = investigations[b]
           /\ Stored \ {id} # {}
              => LET r == Apply(ret'.op, Only(investigations, id), id, ret'.args)
                 IN  /\ r.out = ret'.out
                     /\ id \in DOMAIN investigations'
                        => id \in DOMAIN r.store /\ r.store[id] = investigations'[id]]_vars

\* a call has completed on one investigation while the store holds another
\* investigation with findings of its own
C10_Witness ==
    /\ ret.out.kind = "Complete"
    /\ ret.investigationId \in Stored
    /\ \E b \in Stored \ {ret.investigationId} :
         /\ DOMAIN FindingsOf(b) # {}
         /\ DOMAIN FindingsOf(b) # DOMAIN FindingsOf(ret.investigationId)


\* ---------------------------------------------------- the cascade trace --

\* the last call is a cascade phase that completed
TraceCompleted == ret.op = "css_phase2_cascade" /\ ret.out.kind = "Complete"

\* the files it scanned and the findings it stored
TracedFiles == CssGlob[ret.args.pattern]

TracedCascade == FindingsOf(ret.investigationId).cascade

\* the blocks of the scanned files, as [file, k]: block k of the file
TracedBlocks ==
    {fk \in Range(TracedFiles) \X (1..4) : fk[2] <= Len(CssFileContent[fk[1]])}

BlockAt(fk) == CssFileContent[fk[1]][fk[2]]

\* the selector texts the trace extracts: those of the blocks whose selector
\* contains a search term
TracedSelectors ==
    {BlockAt(fk).selector : fk \in
        {b \in TracedBlocks : \E i \in 1..Len(TracedCascade.searchTerms) :
            Includes(BlockAt(b).selector, TracedCascade.searchTerms[i])}}

\* the file of each block with selector text sel, in scan order
BlockFiles(cssFiles, sel) ==
    Flatten([i \in 1..Len(cssFiles) |->
        [k \in 1..Len(SelectSeq(CssFileContent[cssFiles[i]],
                                 LAMBDA b : b.selector = sel)) |-> cssFiles[i]]])

\* C11: after a completed cascade phase, for every selector text it extracts,
\* a duplicate-selector record exists exactly when two or more blocks of the
\* scanned files have that selector text, its count is the number of those
\* blocks and its files list names the file of each of them.
C11_CountsBlocks ==
    TraceCompleted =>
        \A sel \in TracedSelectors :
            LET files == BlockFiles(TracedFiles, sel)
                recs  == SelectSeq(TracedCascade.duplicateSelectors,
                                   LAMBDA d : d.selector = sel)
            IN  /\ Len(recs) = (IF Len(files) >= 2 THEN 1 ELSE 0)
                /\ \A i \in 1..Len(recs) :
                       recs[i].count = Len(files) /\ recs[i].files = files

\* C12: the first entry of a non-empty findings.cascade.rules has a
\* specificity total no lower than that of any other rule found, across all
\* matched files.
C12_FirstRuleHighest ==
    \A id \in Stored :
        "cascade" \in DOMAIN FindingsOf(id) =>
            LET rules == FindingsOf(id)["cascade"].rules
            IN  \A i \in 1..Len(rules) :
                    rules[1].specificity.total >= rules[i].specificity.total

\* ------------------------------------------------ browser reconciliation --

\* the last call is a solution phase that completed
SolutionCompleted == ret.op = "css_phase5_solution" /\ ret.out.kind = "Complete"

\* C13: a completed solution phase compares the first static rule with the
\* last entry of the browser's matched rules when browser findings exist and
\* both lists are non-empty; it reports one mismatch insight, naming both
\* selectors and the browser rule's origin, exactly when the two selector
\* strings differ, and none without browser data, matched rules or static
\* rules.
C13_Reconciliation ==
    SolutionCompleted =>
        LET findings == FindingsOf(ret.investigationId)
            static   == IF "cascade" \in DOMAIN findings
                        THEN findings["cascade"].rules ELSE <<>>
            applied  == IF "browser" \in DOMAIN findings
                        THEN findings["browser"].matchedRules ELSE <<>>
            mismatch == ret.out.report.mismatch
        IN  IF static # <<>> /\ applied # <<>>
            THEN LET staticWinner  == static[1]
                     browserWinner == applied[Len(applied)]
                 IN  IF staticWinner.selector # browserWinner.selector
                     THEN mismatch = <<[static |-> staticWinner.selector,
                                        browser |-> browserWinner.selector,
                                        origin |-> browserWinner.origin]>>
                     ELSE mismatch = <<>>
            ELSE mismatch = <<>>

\* a mismatch was reported where the first and the last rule the browser
\* applied differ and the first one is the static winner
C13_Witness ==
    /\ SolutionCompleted
    /\ ret.out.report.mismatch # <<>>
    /\ LET findings == FindingsOf(ret.investigationId)
       IN  findings["browser"].matchedRules[1].selector = findings["cascade"].rules[1].selector

\* ------------------------------------------------------- failing reads --

\* the files a scan phase reads for a pattern
FilesRead(op, pattern) ==
    IF op = "css_phase2_cascade" THEN CssGlob[pattern]
    ELSE SubSeq(ComponentGlob[pattern], 1, Min(AnalyzeLimit, Len(ComponentGlob[pattern])))

\* C14: a structure or cascade phase called on a stored investigation, in
\* which the read of some matched file fails and the read of another
\* succeeds, still completes and leaves its findings slot written.
C14_ReadFailureTolerated ==
    \A op \in {"css_phase1_structure", "css_phase2_cascade"} :
        (ret.op = op /\ ret.investigationId \in Stored) =>
            LET files == FilesRead(op, ret.args.pattern)
                failed == {i \in 1..Len(files) : files[i] \in ret.args.unreadable}
            IN  (failed # {} /\ failed # 1..Len(files)) =>
                    /\ ret.out.kind = "Complete"
                    /\ OwnSlot[op] \in DOMAIN FindingsOf(ret.investigationId)

\* ----------------------------------------------------------- no matches --

\* C15: a cascade phase that finds stylesheets, reads them all and finds no
\* search term in any of them returns a no-matches outcome: not the outcome
\* of a trace that found rules, and not one of the failures.
C15_NoMatchesDistinct ==
    (/\ ret.op = "css_phase2_cascade"
     /\ ret.investigationId \in Stored
     /\ Len(CssGlob[ret.args.pattern]) > 0
     /\ Range(CssGlob[ret.args.pattern]) \cap ret.args.unreadable = {}
     /\ \A f \in Range(CssGlob[ret.args.pattern]) :
            \A i \in 1..Len(searchTerms(ret.args.selector)) :
                ~ContentIncludes(CssFileContent[f], searchTerms(ret.args.selector)[i]))
    => ret.out.kind \notin {"Complete", "Error", "NoFilesFound", "InvestigationNotFound"}

\* -------------------------------------------------------- rule ordering --

\* the stored cascade findings of the investigations that have them
StoredCascades ==
    {FindingsOf(id)["cascade"] : id \in {i \in Stored : "cascade" \in DOMAIN FindingsOf(i)}}

\* the matches of the stored cascade findings, each with the rules of its
\* file in match order: terms in order, text order per term
StoredMatches ==
    UNION {{[match |-> c.matches[k],
             extracted |-> ExtractRules(c.matches[k].content, c.searchTerms)] :
            k \in 1..Len(c.matches)} : c \in StoredCascades}

\* C16: the rules of each matched file are the rules extracted from it,
\* ordered by specificity total from highest to lowest, and the rules of one
\* total are in match order.
C16_SortedPerFile ==
    \A m \in StoredMatches :
        LET rules == m.match.rules
        IN  /\ Len(rules) = Len(m.extracted)
            /\ \A i \in 1..(Len(rules) - 1) :
                   rules[i].specificity.total >= rules[i + 1].specificity.total
            /\ \A r \in Range(m.extracted) :
                   SelectSeq(rules, LAMBDA x : x.specificity.total = r.specificity.total)
                   = SelectSeq(m.extracted, LAMBDA x : x.specificity.total = r.specificity.total)

\* a file whose extraction order had to be changed, holding different rules
\* of one total
C16_Witness ==
    \E m \in StoredMatches :
        /\ m.match.rules # m.extracted
        /\ \E i \in 1..(Len(m.match.rules) - 1) :
               /\ m.match.rules[i].specificity.total = m.match.rules[i + 1].specificity.total
               /\ m.match.rules[i].selector # m.match.rules[i + 1].selector

\* ------------------------------------------------------- conflict count --

\* the last call is a conflict phase that completed
ConflictsCompleted == ret.op = "css_phase3_conflicts" /\ ret.out.kind = "Complete"

\* the matched files of the cascade findings that hold an !important
ImportantFiles(cascade) ==
    {k \in 1..Len(cascade.matches) :
        \E b \in Range(cascade.matches[k].content) :
            \E d \in Range(b.decls) : d.important}

\* the lines of a file that declare property p: the lines that begin with
\* `p:` and hold the closing `;`
DeclarationLines(content, p) ==
    {i \in 1..Len(FileLines(content)) :
        FileLines(content)[i].isDecl /\ FileLines(content)[i].prop = p}

\* the (matched file, property) pairs with the property declared on more
\* than one line of the file
RepeatedProperties(cascade) ==
    {kp \in (1..Len(cascade.matches)) \X {"color", "margin", "padding"} :
        Cardinality(DeclarationLines(cascade.matches[kp[1]].content, kp[2])) > 1}

\* C17: the totalConflicts stored by the conflict phase is the number of
\* duplicate-selector records of the cascade findings, plus the number of
\* matched files that hold at least one !important, plus the number of
\* (file, property) pairs whose property is declared on more than one line of
\* that file.
C17_TotalConflicts ==
    ConflictsCompleted =>
        LET findings == FindingsOf(ret.investigationId)
            cascade  == findings["cascade"]
        IN  findings["conflicts"].totalConflicts =
                Len(cascade.duplicateSelectors)
                + Cardinality(ImportantFiles(cascade))
                + Cardinality(RepeatedProperties(cascade))

\* a conflict phase that found conflicts of all three kinds, one of the
\* files holding more than one !important
C17_Witness ==
    /\ ConflictsCompleted
    /\ LET cascade == FindingsOf(ret.investigationId)["cascade"]
       IN  /\ Len(cascade.duplicateSelectors) > 0
           /\ RepeatedProperties(cascade) # {}
           /\ \E k \in ImportantFiles(cascade) : ImportantCount(cascade.matches[k].content) > 1

\* ------------------------------------------------- the solution slot --

\* findings.solution of id holds the key, before and after the step
HasSolutionKey(id, key) ==
    "solution" \in DOMAIN FindingsOf(id) /\ key \in DOMAIN FindingsOf(id)["solution"]

HasSolutionKeyAfter(id, key) ==
    "solution" \in DOMAIN FindingsAfter(id) /\ key \in DOMAIN FindingsAfter(id)["solution"]

\* C18: a screenshot comparison that succeeds with the id of a stored
\* investigation leaves findings.solution.visualDiff present, whether or not
\* the solution phase has run, and keeps the recommendation and fixedFiles
\* already stored; no call removes visualDiff; a solution phase that
\* completes when visualDiff is present keeps its value and reports the
\* visual comparison.
C18_SolutionAccumulates ==
    [][ /\ \A id \in Stored :
               HasSolutionKey(id, "visualDiff") => HasSolutionKeyAfter(id, "visualDiff")
        /\ (Completed("css_compare_screenshots") /\ ret'.investigationId \in Stored) =>
               LET id == ret'.investigationId
               IN  /\ HasSolutionKeyAfter(id, "visualDiff")
                   /\ \A key \in {"recommendation", "fixedFiles"} :
                          HasSolutionKey(id, key) =>
                              /\ HasSolutionKeyAfter(id, key)
                              /\ FindingsAfter(id)["solution"][key] = FindingsOf(id)["solution"][key]
        /\ (Completed("css_phase5_solution")
                /\ HasSolutionKey(ret'.investigationId, "visualDiff")) =>
               LET id == ret'.investigationId
               IN  /\ FindingsAfter(id)["solution"]["visualDiff"]
                          = FindingsOf(id)["solution"]["visualDiff"]
                   /\ ret'.out.report.visualComparison
                          = <<VisualStatus(FindingsOf(id)["solution"]["visualDiff"])>>
      ]_vars

\* a solution phase has completed after a comparison and reported it; the
\* slot holds the comparison and the recommendation
C18_Witness ==
    /\ ret.op = "css_phase5_solution"
    /\ ret.out.kind = "Complete"
    /\ ret.out.report.visualComparison # <<>>
    /\ {"visualDiff", "recommendation", "fixedFiles"}
           \subseteq DOMAIN FindingsOf(ret.investigationId)["solution"]

\* ----------------------------------------------------------- specificity --

\* a selector has been scored
Scored == ret.op = "calculateSpecificity"

\* C19: the score of every selector string has inline 0, natural numbers as
\* ids, classes and elements, and total = inline*1000 + ids*100 + classes*10
\* + elements; the empty string scores zero in every field.
C19_ScoreWellFormed ==
    Scored =>
        LET score == ret.out
        IN  /\ DOMAIN score = {"inline", "ids", "classes", "elements", "total"}
            /\ score.inline = 0
            /\ score.ids \in Nat /\ score.classes \in Nat /\ score.elements \in Nat
            /\ score.total = score.inline * 1000 + score.ids * 100
                             + score.classes * 10 + score.elements
            /\ ret.args.selector = <<>> =>
                   score = [inline |-> 0, ids |-> 0, classes |-> 0, elements |-> 0,
                            total |-> 0]

\* a selector that counts in every field has been scored
C19_Witness ==
    /\ Scored
    /\ ret.out.ids > 0 /\ ret.out.classes > 0 /\ ret.out.elements > 0
    /\ ret.out.total > 110

\* the names counted a second time: those that follow `#`, `.` or `:` in the
\* cleaned selector and do not start with a digit
RecountedNames(selector) ==
    LET cleaned == StripPseudoElements(selector, 1)
    IN  {i \in 1..Len(cleaned) :
            cleaned[i] \in {"#", ".", ":"} /\ CharAt(cleaned, i + 1) \in WordChars \ Digits}

\* the totals the unit tests expect
ExpectedTotals ==
    { <<SelDiv, 1>>, <<SelButton, 11>>, <<SelHeader, 101>>, <<SelHover, 12>>,
      <<SelCombined, 124>> }

\* C20: every name that follows `#`, `.` or `:` is counted as an element as
\* well, on top of its count as id or class, unless it starts with a digit
\* (the name of a `:not(` is counted as an element only);
\* `div` scores 1, `.button` 11, `#header` 101, `a:hover` 12 and
\* `div.container #header .nav-item` 124, with ids 1, classes 2, elements 4.
C20_NamesCountedTwice ==
    Scored =>
        /\ ret.out.elements >= Cardinality(RecountedNames(ret.args.selector))
        /\ ret.out.ids * 100 + ret.out.classes * 10
               + Cardinality(RecountedNames(ret.args.selector)) <= ret.out.total
        /\ \A e \in ExpectedTotals : ret.args.selector = e[1] => ret.out.total = e[2]
        /\ ret.args.selector = SelCombined =>
               ret.out.ids = 1 /\ ret.out.classes = 2 /\ ret.out.elements = 4

\* the combined selector of the unit tests has been scored 124
C20_Witness ==
    /\ Scored
    /\ ret.args.selector = SelCombined
    /\ ret.out.total = 124
    /\ Cardinality(RecountedNames(ret.args.selector)) = 3

\* ------------------------------------------------------- bgcolor issues --

\* a component text has been analysed
Analyzed == ret.op = "analyzeMUIComponent"

BgcolorIssues == SelectSeq(ret.out, LAMBDA i : i.type = "bgcolor-mismatch")

\* the light values the structure analysis is to report
LightValues == {"grey.50", "grey.100", "white"}

Writers22(op) ==
    {k \in Invocations : inflight[k].op = op /\ inflight[k].pc = "returned"
                         /\ inflight[k].out.kind = "Complete"}

\* the one of them that returned last
LastWriter(op) ==
    CHOOSE k \in Writers22(op) :
        \A j \in Writers22(op) : inflight[j].returnedAt <= inflight[k].returnedAt

\* C22: at every moment of two interleaved invocations on one investigation,
\* findings.cascade is absent while no cascade invocation has completed and is
\* otherwise the whole result of the cascade invocation that completed last,
\* computed from its own arguments alone; likewise findings.structure and the
\* structure invocations
C22_LastWriteWins ==
    LET findings == investigations["inv-1"].findings
    IN  /\ IF Writers22("css_phase2_cascade") = {}
           THEN "cascade" \notin DOMAIN findings
           ELSE LET w == inflight[LastWriter("css_phase2_cascade")]
                IN  /\ "cascade" \in DOMAIN findings
                    /\ findings["cascade"] = CascadeFindings(CssGlob[w.pattern], w.selector)
        /\ IF Writers22("css_phase1_structure") = {}
           THEN "structure" \notin DOMAIN findings
           ELSE LET w == inflight[LastWriter("css_phase1_structure")]
                IN  /\ "structure" \in DOMAIN findings
                    /\ findings["structure"] = StructureFindings(ComponentGlob[w.pattern])

\* two cascade invocations with different results whose reads alternated have
\* both completed
C22_Witness ==
    /\ \A k \in Invocations :
          /\ inflight[k].op = "css_phase2_cascade"
          /\ inflight[k].pc = "returned"
          /\ inflight[k].out.kind = "Complete"
          /\ Len(inflight[k].reads) = 2
    /\ inflight[1].reads[1] < inflight[2].reads[1]
    /\ inflight[2].reads[1] < inflight[1].reads[2]
    /\ inflight[1].reads[2] < inflight[2].reads[2]
    /\ CascadeFindings(CssGlob[inflight[1].pattern], inflight[1].selector)
         # CascadeFindings(CssGlob[inflight[2].pattern], inflight[2].selector)
    /\ CascadeFindings(CssGlob[inflight[1].pattern], inflight[1].selector).matchesFound > 0
    /\ CascadeFindings(CssGlob[inflight[2].pattern], inflight[2].selector).matchesFound > 0

\* ---------------------------------------------------------------- C23 --

C24_DerivedConsistent ==
    \A id \in Stored :
        /\ {"conflicts", "multiLevel"} \subseteq DOMAIN FindingsOf(id)
              => FindingsOf(id)["multiLevel"].overriddenProperties
                    = FindingsOf(id)["conflicts"].duplicateProperties
        /\ {"cascade", "conflicts"} \subseteq DOMAIN FindingsOf(id)
              => FindingsOf(id)["conflicts"] = ConflictFindings(FindingsOf(id)["cascade"])

\* ---------------------------------------------------------------- C25 --

\* the data attached to findings.structure by the screenshot analysis and
\* the batch scope detection
Attached(findings) ==
    DOMAIN SlotOrEmpty(findings, "structure") \cap {"screenshotAnalysis", "batchScope"}

\* C25: no call detaches what css_analyze_screenshot or css_batch_apply has
\* stored in findings.structure of an investigation
C25_AttachedDataStays ==
    [][\A id \in Stored : Attached(FindingsOf(id)) \subseteq Attached(FindingsAfter(id))]_vars

\* ---------------------------------------------------------------- C26 --

\* the snapshotted paths of the stored rollback point id
SnapshotPaths(id) ==
    {f.path : f \in UNION {Range(p.files) : p \in {q \in Range(rollbackPoints) : q.id = id}}}

\* path is in disk as it is in before
SameFile(disk, before, path) ==
    /\ (path \in DOMAIN disk) = (path \in DOMAIN before)
    /\ path \in DOMAIN disk => disk[path] = before[path]

\* the call that has just returned is a rollback to a point that was created
RolledBack ==
    /\ calls' = calls + 1
    /\ ret'.op = "rollback"
    /\ ret'.args.rollbackId \in DOMAIN taken

\* C26: a rollback to a stored point that meets no write error returns
\* success true, leaves every snapshotted path as it was when the point was
\* created (the same bytes, or absent), and leaves every other path as it
\* was before the rollback
C26_RoundTrip ==
    [][(RolledBack /\ PointsWithId(rollbackPoints, ret'.args.rollbackId) # {}
                   /\ ret'.args.failing = {})
       => /\ ret'.out.success
          /\ \A path \in SnapshotPaths(ret'.args.rollbackId) :
                SameFile(fileSystem', taken[ret'.args.rollbackId], path)
          /\ \A path \in Paths \ SnapshotPaths(ret'.args.rollbackId) :
                SameFile(fileSystem', fileSystem, path)]_vars

\* ---------------------------------------------------------------- C27 --

\* C27: a rollback with an id that is not the id of a stored rollback point
\* returns success false, filesRestored 0 and the single error that names
\* the id, and leaves the files and the stored rollback points as they were
C27_UnknownPoint ==
    [][(/\ calls' = calls + 1
        /\ ret'.op = "rollback"
        /\ PointsWithId(rollbackPoints, ret'.args.rollbackId) = {})
       => /\ ret'.out = [success |-> FALSE, filesRestored |-> 0,
                         errors |-> <<[kind |-> "NotFound", of |-> ret'.args.rollbackId]>>]
          /\ fileSystem' = fileSystem
          /\ rollbackPoints' = rollbackPoints]_vars

\* a rollback to a point that cleanup has removed has been refused while
\* another point is stored
C27_Witness ==
    /\ ret.op = "rollback"
    /\ ret.args.rollbackId \in DOMAIN taken
    /\ PointsWithId(rollbackPoints, ret.args.rollbackId) = {}
    /\ rollbackPoints # <<>>
    /\ ~ret.out.success

\* ---------------------------------------------------------------- C28 --

\* C28: cleanup(keepLast) leaves min(number before, keepLast) of the stored
\* rollback points, in their order; every point it keeps has a timestamp
\* greater than or equal to that of every point it removes; it touches no
\* file; and it changes nothing when keepLast points or fewer are stored
C28_KeepsNewest ==
    [][(calls' = calls + 1 /\ ret'.op = "cleanup")
       => /\ Len(rollbackPoints') = Min(Len(rollbackPoints), ret'.args.keepLast)
          /\ rollbackPoints' = SelectSeq(rollbackPoints,
                                         LAMBDA p : p \in Range(rollbackPoints'))
          /\ \A p \in Range(rollbackPoints') :
             \A q \in Range(rollbackPoints) \ Range(rollbackPoints') :
                p.timestamp >= q.timestamp
          /\ fileSystem' = fileSystem
          /\ (Len(rollbackPoints) <= ret'.args.keepLast
                => rollbackPoints' = rollbackPoints)]_vars

\* cleanup(1) has returned after three points were created at two different
\* times, and the point it has kept is not the first one created
C28_Witness ==
    /\ ret.op = "cleanup"
    /\ ret.args.keepLast = 1
    /\ Cardinality(DOMAIN taken) = 3
    /\ Len(rollbackPoints) = 1
    /\ Cardinality({id.now : id \in DOMAIN taken}) = 2
    /\ \E id \in DOMAIN taken : id.suffix < rollbackPoints[1].id.suffix

\* ---------------------------------------------------------------- C29 --

\* the call that has just returned is a validateFix
Validated == calls' = calls + 1 /\ ret'.op = "validateFix"

\* the result of a validation that ran to its end reports success exactly
\* when the tests passed, the server runs and responds, no endpoint tested
\* failed and the comparison of the logs found no new error; the fix is then
\* in the history with this result
CompletedAsClaimed(env, fix, r) ==
    /\ r.phase = "complete"
    /\ r.details.noNewErrors = (r.details.logs = <<>>)
    /\ r.success = (/\ env.test.passed /\ env.running /\ env.responding
                    /\ \A i \in 1..Len(env.endpoints) : env.endpoints[i]
                    /\ r.details.noNewErrors)
    /\ fixHistory' = Append(fixHistory, With(fix, "validation", r))

\* the result of a validation in which a step has thrown
FailedAsClaimed(r) ==
    /\ r.success = FALSE
    /\ r.phase = "error"
    /\ getLastSuccessfulFix(fixHistory') = getLastSuccessfulFix(fixHistory)

\* C29 as stated: whichever step throws, the fix is in the history, without
\* a validation result
C29_FixAlwaysTracked ==
    [][Validated =>
        LET env == ret'.args.env
            fix == ret'.args.fix
        IN  IF env.baselineThrows \/ env.compareThrows
            THEN FailedAsClaimed(ret'.out) /\ fixHistory' = Append(fixHistory, fix)
            ELSE CompletedAsClaimed(env, fix, ret'.out)]_vars

\* C29: validateFix reports success exactly when the tests passed, the server
\* runs and responds, no endpoint tested failed and no new error was found;
\* the fix is appended to the history after the baseline errors have been
\* read; when that first read throws the result is success false with phase
\* 'error' and the history is unchanged, and when a later step throws the
\* result is the same and the fix is in the history without a validation
\* result
C29_FixTrackedAfterBaseline ==
    [][Validated =>
        LET env == ret'.args.env
            fix == ret'.args.fix
        IN  IF env.baselineThrows
            THEN FailedAsClaimed(ret'.out) /\ fixHistory' = fixHistory
            ELSE IF env.compareThrows
            THEN FailedAsClaimed(ret'.out) /\ fixHistory' = Append(fixHistory, fix)
            ELSE CompletedAsClaimed(env, fix, ret'.out)]_vars

\* a validation whose baseline read threw has returned
C29_Witness ==
    /\ ret.op = "validateFix"
    /\ ret.args.env.baselineThrows
    /\ ret.out.phase = "error"
    /\ fixHistory = <<>>

\* ---------------------------------------------------------------- C30 --

\* the error entries written after the fix whose message no error entry had
\* before the call
NewlyWritten ==
    {e \in Range(ret.args.env.written) :
        /\ e.level = "error"
        /\ e.timestamp > ret.args.fix.timestamp
        /\ \A old \in Range(ret.args.entries) :
              old.level = "error" => old.message # e.message}

\* C30: a validation that ran to its end reports every error entry written
\* after the fix with a message no earlier error entry had, and then reports
\* noNewErrors false and success false
C30_NewErrorsDetected ==
    (ret.op = "validateFix" /\ ret.out.phase = "complete" /\ NewlyWritten # {})
    => /\ NewlyWritten \subseteq Range(ret.out.details.logs)
       /\ ~ret.out.details.noNewErrors
       /\ ~ret.out.success

====
